---- MODULE Spec2Model ----
(***************************************************************************)
(* A model of the CodeCopilot agent core:                                  *)
(*   - utils/secure_fs.py   resolve_path, the sandbox gateway              *)
(*   - tools/*.py           the filesystem tools that call the gateway     *)
(*   - utils/context.py     ContextManager, the transcript and its         *)
(*                          token-bounded view                             *)
(*   - tool_registry.py     execute_tool_call, dispatch by name;           *)
(*                          _TOOL_CACHE and _scan_and_load_tools, the      *)
(*                          discovery cache and its refresh                *)
(*   - tools/bash.py        bash_tool under its timeout: the processes a   *)
(*                          command starts and what the expiry kills       *)
(*   - utils/schema_helper.py  the @tool decorator and the schema it      *)
(*                          derives from a signature                       *)
(*   - main.py              Agent.chat, the orchestration generator        *)
(*                                                                         *)
(* File names are sequences of one-character strings, so that              *)
(* str.startswith(".") is a test on the first character.  A path is a      *)
(* sequence of names; an absolute path lists its names from "/".  A text   *)
(* is a sequence of string tokens; its length is the sum of the lengths of *)
(* its tokens.                                                             *)
(***************************************************************************)
EXTENDS Integers, Sequences, FiniteSets, TLC

VARIABLES
    \* ---- gateway driver (SpecResolve)
    rp_in,          \* the raw path handed to resolve_path
    rp_out,         \* what resolve_path did with it
    \* ---- tools driver (SpecTools)
    disk,           \* the files and directories that exist
    last,           \* the last tool call: its arguments, result and accesses
    ncalls,         \* how many tool calls were made
    \* ---- ContextManager driver (SpecCtx)
    ctx,            \* a ContextManager: [system_prompt, safe_token_limit, messages]
    snap,           \* the last value get_messages returned
    \* ---- Agent (Spec)
    memory,         \* Agent.memory, a ContextManager
    pc,             \* where the chat generator stands
    retries,        \* the local `retries` of _call_llm_with_retry
    attempts,       \* what the current call of _call_llm_with_retry did, in order
    batch,          \* message.tool_calls of the response being processed
    idx,            \* index in batch of the tool call being processed
    result,         \* the local `result` of chat: what execute_tool_call returned
    events,         \* the events the current run has yielded so far
    trace,          \* what the current run did, in order
    rounds,         \* responses with tool calls so far
    chats,          \* chat calls made so far
    \* ---- dispatch driver (SpecDispatch)
    dispatched,     \* the last call of execute_tool_call: arguments and outcome
    \* ---- tool registry (SpecRegistry)
    units,          \* the files of the tools directory on disk
    sys_modules,    \* sys.modules: the tool modules imported so far
    cache,          \* _TOOL_CACHE: [schemas, map, is_loaded]
    threads,        \* for each thread, where its registry call stands
    scans,          \* how many scans of the tools directory were started
    tools,          \* Agent.tools of an Agent, once it is constructed
    sent,           \* the tools argument of the last inference call
    \* ---- bash_tool under its timeout (SpecBash)
    procs,          \* the processes that run: [call, role, left, pipe]
    sub,            \* the subprocess.run of the current bash_tool call
    \* ---- the tool decorator (SpecSchema)
    decorated       \* a function and, once @tool has run, its schema

fsvars  == <<rp_in, rp_out>>
tvars   == <<disk, last, ncalls>>
cvars   == <<ctx, snap>>
avars   == <<memory, pc, retries, attempts, batch, idx, result, events, trace, rounds,
             chats>>
dvars   == <<dispatched>>
rvars   == <<units, sys_modules, cache, threads, scans, tools, sent>>
ovars   == <<dvars, rvars>>
bvars   == <<procs, sub>>
hvars   == <<decorated>>
vars    == <<rp_in, rp_out, disk, last, ncalls, ctx, snap,
             memory, pc, retries, attempts, batch, idx, result, events, trace, rounds,
             chats, dispatched, units, sys_modules, cache, threads, scans, tools, sent,
             procs, sub, decorated>>

-----------------------------------------------------------------------------
(* Bounds of the model.                                                    *)

MaxSegs == 3        \* names in a raw path

-----------------------------------------------------------------------------
(* Names.                                                                  *)

N_dot       == <<".">>
N_dotdot    == <<".", ".">>
N_empty     == <<>>
N_env       == <<".", "e", "n", "v">>
N_git       == <<".", "g", "i", "t">>
N_hidden    == <<".", "h", "i", "d", "d", "e", "n">>
N_secrets   == <<"s", "e", "c", "r", "e", "t", "s", ".", "j", "s", "o", "n">>
N_venv      == <<"v", "e", "n", "v">>
N_src       == <<"s", "r", "c">>
N_x         == <<"x">>
N_nv        == <<"n", "v">>
N_etc       == <<"e", "t", "c">>
N_out       == <<"o", "u", "t">>
N_lnk       == <<"l", "n", "k">>
N_dl        == <<".", "l">>
N_proj      == <<"p", "r", "o", "j">>
N_proj2     == <<"p", "r", "o", "j", "2">>

\* utils/secure_fs.py:6  PROJECT_ROOT = pathlib.Path(os.getcwd()).resolve()
PROJECT_ROOT == <<N_proj>>

\* utils/secure_fs.py:9-15
BLOCKED_FILES ==
    { N_env,
      <<".", "e", "n", "v", ".", "l", "o", "c", "a", "l">>,
      N_secrets,
      <<"i", "d", "_", "r", "s", "a">>,
      <<".", "D", "S", "_", "S", "t", "o", "r", "e">> }

\* utils/secure_fs.py:17-25
BLOCKED_DIRS ==
    { N_git,
      <<".", "v", "s", "c", "o", "d", "e">>,
      <<".", "i", "d", "e", "a">>,
      <<"_", "_", "p", "y", "c", "a", "c", "h", "e", "_", "_">>,
      <<"e", "n", "v">>,
      N_venv,
      <<"n", "o", "d", "e", "_", "m", "o", "d", "u", "l", "e", "s">> }

\* str.startswith(".")
StartsWithDot(name) == Len(name) >= 1 /\ name[1] = "."

-----------------------------------------------------------------------------
(* The symbolic links of the machine: /proj/out -> /etc (a link that       *)
(* leaves the sandbox), /proj/lnk -> /proj/.git (a link to a blocked       *)
(* directory), /proj/.l -> /proj/src (a hidden link to a plain directory).   *)
(* Link targets are canonical.                                             *)

IsLink(p) == p \in { <<N_proj, N_out>>, <<N_proj, N_lnk>>, <<N_proj, N_dl>> }

LinkTarget(p) ==
    CASE p = <<N_proj, N_out>>    -> <<N_etc>>
      [] p = <<N_proj, N_lnk>>    -> <<N_proj, N_git>>
      [] p = <<N_proj, N_dl>> -> <<N_proj, N_src>>

\* all but the last name of p ("/" is its own parent)
Parent(p) == IF p = <<>> THEN <<>> ELSE SubSeq(p, 1, Len(p) - 1)

\* pathlib.Path.resolve(strict=False): names are taken left to right from
\* the physical directory reached so far; "" and "." are dropped, ".." goes
\* to the physical parent, a link is replaced by its target.
RECURSIVE Walk(_, _)
Walk(cur, rest) ==
    IF rest = <<>> THEN cur
    ELSE LET s == Head(rest) IN
         IF s = N_empty \/ s = N_dot THEN Walk(cur, Tail(rest))
         ELSE IF s = N_dotdot THEN Walk(Parent(cur), Tail(rest))
         ELSE LET new == Append(cur, s) IN
              IF IsLink(new) THEN Walk(LinkTarget(new), Tail(rest))
              ELSE Walk(new, Tail(rest))

\* A raw path: [abs |-> it starts with "/", segs |-> its names, kind |-> "str"
\* for a usable string, "nul" for a string with a NUL character, "nonstr" for
\* a value that is no string (None, a number)].
\* PROJECT_ROOT / path: an absolute path replaces the root.
Join(root, path) == IF path.abs THEN path.segs ELSE root \o path.segs

RawPath(abs, segs) == [abs |-> abs, segs |-> segs, kind |-> "str"]
NulPath    == [abs |-> FALSE, segs |-> <<N_x>>, kind |-> "nul"]
NonStrPath == [abs |-> FALSE, segs |-> <<>>, kind |-> "nonstr"]

\* ---- texts: sequences of string tokens
RECURSIVE StrLen(_)
StrLen(text) == IF text = <<>> THEN 0 ELSE Len(Head(text)) + StrLen(Tail(text))

Contains(text, word) == \E i \in 1..Len(text) : text[i] = word

\* a name as a string
RECURSIVE NameStr(_)
NameStr(name) == IF name = <<>> THEN "" ELSE Head(name) \o NameStr(Tail(name))

\* names joined by "/"
RECURSIVE SegsStr(_)
SegsStr(segs) ==
    IF segs = <<>> THEN ""
    ELSE IF Len(segs) = 1 THEN NameStr(segs[1])
    ELSE NameStr(Head(segs)) \o "/" \o SegsStr(Tail(segs))

\* str(path) of a raw path
RawStr(path) ==
    IF path.kind = "nonstr" THEN "None"
    ELSE (IF path.abs THEN "/" ELSE "") \o SegsStr(path.segs)

Resolve(p) == Walk(<<>>, p)

\* root in target.parents: root is a proper prefix of target
InParents(root, target) ==
    /\ Len(root) < Len(target)
    /\ SubSeq(target, 1, Len(root)) = root

\* target.relative_to(root).parts
RelativeParts(target, root) == SubSeq(target, Len(root) + 1, Len(target))

\* The first part of a path that the loop of resolve_path refuses, 0 if none.
FirstRefused(parts) ==
    IF \E i \in 1..Len(parts) :
           parts[i] \in BLOCKED_FILES \/ parts[i] \in BLOCKED_DIRS \/ StartsWithDot(parts[i])
    THEN CHOOSE i \in 1..Len(parts) :
           /\ parts[i] \in BLOCKED_FILES \/ parts[i] \in BLOCKED_DIRS \/ StartsWithDot(parts[i])
           /\ \A j \in 1..(i - 1) :
                ~(parts[j] \in BLOCKED_FILES \/ parts[j] \in BLOCKED_DIRS \/ StartsWithDot(parts[j]))
    ELSE 0

\* What resolve_path returns or raises.
Safe(path)      == [ok |-> TRUE,  path |-> path, err |-> <<>>]
SecurityError(msg) == [ok |-> FALSE, path |-> <<>>, err |-> msg]

\* the sandbox check of resolve_path done on the text of the paths, as
\* str.startswith would do it
SandboxCheckByPrefix(target) ==
    /\ Len(target) >= Len(PROJECT_ROOT)
    /\ SubSeq(target, 1, Len(PROJECT_ROOT) - 1) = SubSeq(PROJECT_ROOT, 1, Len(PROJECT_ROOT) - 1)
    /\ LET a == target[Len(PROJECT_ROOT)]
           b == PROJECT_ROOT[Len(PROJECT_ROOT)]
       IN  Len(a) >= Len(b) /\ SubSeq(a, 1, Len(b)) = b

\* the sandbox check of resolve_path without its second half: the root
\* itself is refused
SandboxCheckNoRoot(target) == InParents(PROJECT_ROOT, target)

\* utils/secure_fs.py:51
SandboxCheck(target) == InParents(PROJECT_ROOT, target) \/ target = PROJECT_ROOT

\* utils/secure_fs.py:31-70
resolve_path(path) ==
    LET target_path == Resolve(Join(PROJECT_ROOT, path)) IN
    IF path.kind # "str"
    THEN SecurityError(<<"Invalid path structure:", RawStr(path)>>)
    ELSE IF ~SandboxCheck(target_path)
    THEN SecurityError(<<"Access denied.", "Path", RawStr(path), "is outside the project workspace.">>)
    ELSE LET relative_parts == RelativeParts(target_path, PROJECT_ROOT)
             bad == FirstRefused(relative_parts)
         IN  IF bad = 0 THEN Safe(target_path)
             ELSE IF relative_parts[bad] \in BLOCKED_FILES \/ relative_parts[bad] \in BLOCKED_DIRS
                  THEN SecurityError(<<"Access denied.", NameStr(relative_parts[bad]), "is restricted.">>)
                  ELSE SecurityError(<<"Access denied.", "Hidden item", NameStr(relative_parts[bad]), "is protected.">>)

-----------------------------------------------------------------------------
(* The disk: [dirs |-> the directories, files |-> path :> content].  All   *)
(* paths are physical (link-free) absolute paths; the links are the fixed  *)
(* ones of IsLink.                                                         *)

MaxCalls == 2       \* tool calls in one behaviour of the tools driver

File(text) == [binary |-> FALSE, text |-> text]
BinaryFile == [binary |-> TRUE, text |-> "ELF"]

LinkPaths == { <<N_proj, N_out>>, <<N_proj, N_lnk>>, <<N_proj, N_dl>> }

Disk0 ==
    [dirs  |-> { <<>>, <<N_proj>>, <<N_proj, N_src>>, <<N_proj, N_git>>,
                 <<N_etc>>, <<N_proj2>> },
     files |-> ( <<N_proj, N_src, N_x>> :> File("pub")
              @@ <<N_proj, N_env>>      :> File("SECRET")
              @@ <<N_proj, N_git, N_x>> :> File("gitcfg")
              @@ <<N_etc, N_x>>         :> File("passwd")
              @@ <<N_proj2, N_x>>       :> BinaryFile )]

Last(p) == p[Len(p)]

\* os.path.exists / isdir / isfile: links are followed
Exists(d, p) == Resolve(p) \in d.dirs \/ Resolve(p) \in DOMAIN d.files
IsDir(d, p)  == Resolve(p) \in d.dirs
IsFile(d, p) == Resolve(p) \in DOMAIN d.files

\* os.path.lexists: the last name is not followed
LExists(d, p) ==
    IF p = <<>> \/ Last(p) \in {N_dot, N_dotdot, N_empty} THEN Exists(d, p)
    ELSE LET phys == Append(Resolve(Parent(p)), Last(p))
         IN  phys \in d.dirs \/ phys \in DOMAIN d.files \/ phys \in LinkPaths

\* os.listdir of a physical directory
ListDir(d, dir) ==
    { Last(q) : q \in { e \in (d.dirs \cup DOMAIN d.files \cup LinkPaths) :
                            e # <<>> /\ Parent(e) = dir } }

\* os.makedirs(dir, exist_ok=True): fails when a name on the way is a file
CanMakeDirs(d, dir) == \A k \in 0..Len(dir) : SubSeq(dir, 1, k) \notin DOMAIN d.files
MakeDirs(d, dir) ==
    [d EXCEPT !.dirs = @ \cup { SubSeq(dir, 1, k) : k \in 0..Len(dir) }]

\* open(path, "w").write(content): possible when the parent is a directory
\* and the path is none
CanOpenW(d, path) == Parent(path) \in d.dirs /\ path \notin d.dirs
WriteContent(d, path, content) ==
    [d EXCEPT !.files = (path :> File(content)) @@ @]

\* ---- order of names, for list.sort()
Alphabet == <<".", "/", "2", "D", "S", "_", "a", "b", "c", "d", "e", "g", "h", "i",
              "j", "k", "l", "m", "n", "o", "p", "r", "s", "t", "u", "v", "x", "y">>
Rank(c) == CHOOSE i \in 1..Len(Alphabet) : Alphabet[i] = c

RECURSIVE NameLess(_, _)
NameLess(a, b) ==
    IF a = <<>> THEN b # <<>>
    ELSE IF b = <<>> THEN FALSE
    ELSE IF Head(a) = Head(b) THEN NameLess(Tail(a), Tail(b))
    ELSE Rank(Head(a)) < Rank(Head(b))

\* sorted(S) for a set of names
RECURSIVE Sorted(_)
Sorted(S) ==
    IF S = {} THEN <<>>
    ELSE LET m == CHOOSE x \in S : \A y \in S \ {x} : NameLess(x, y)
         IN  <<m>> \o Sorted(S \ {m})

\* the characters of a path written with "/" between its names
RECURSIVE Flat(_)
Flat(segs) ==
    IF segs = <<>> THEN <<>>
    ELSE IF Len(segs) = 1 THEN segs[1]
    ELSE Head(segs) \o <<"/">> \o Flat(Tail(segs))

\* sorted(S) for a set of paths, by their text
RECURSIVE SortedPaths(_)
SortedPaths(S) ==
    IF S = {} THEN <<>>
    ELSE LET m == CHOOSE x \in S : \A y \in S \ {x} : NameLess(Flat(x), Flat(y))
         IN  <<m>> \o SortedPaths(S \ {m})

\* str.lower() of a name
LowerChar(c) == CASE c = "D" -> "d" [] c = "S" -> "s" [] OTHER -> c
Lower(name) == [i \in 1..Len(name) |-> LowerChar(name[i])]

\* a in b, for strings
IsSub(a, b) == \E i \in 0..(Len(b) - Len(a)) : SubSeq(b, i + 1, i + Len(a)) = a

\* ---- what a tool call gives: the value it returns (json.dumps(result), kept
\* as its fields), the disk it leaves, the physical paths whose content or name
\* it read, wrote or returned, whether it ran a command, and the exception it
\* raised ("" if none)
Ret(status, error, output) == [status |-> status, error |-> error, output |-> output]
Done(ret, d, accessed, ran) ==
    [ret |-> ret, disk |-> d, accessed |-> accessed, ran |-> ran, raised |-> ""]
Raised(exc, d) ==
    [ret |-> Ret("", <<>>, <<>>), disk |-> d, accessed |-> {}, ran |-> FALSE, raised |-> exc]

\* json.dumps(result): the text the tool hands back
Dumps(ret) == <<ret.status>> \o ret.error \o ret.output

\* tools/read.py:46-153, with offset and limit left at their defaults
read_file(d, file_path) ==
    LET r == resolve_path(file_path) IN
    IF ~r.ok
    THEN Done(Ret("failed", <<"Security", "Error:">> \o r.err,
                            <<"Security", "Error:">> \o r.err), d, {}, FALSE)
    ELSE LET resolved_path == r.path IN
    IF ~Exists(d, resolved_path)
    THEN LET dirname  == Parent(resolved_path)
             basename == Last(resolved_path)
             hits == IF IsDir(d, dirname)
                     THEN { e \in ListDir(d, dirname) :
                              IsSub(Lower(basename), Lower(e)) \/ IsSub(Lower(e), Lower(basename)) }
                     ELSE {}
             \* suggestions[:3]: os.listdir gives the entries in no particular order
             suggestions == IF Cardinality(hits) <= 3 THEN hits
                            ELSE CHOOSE S \in SUBSET hits : Cardinality(S) = 3
             msg == <<"File not found:", RawStr(file_path)>> \o
                    (IF suggestions = {} THEN <<>>
                     ELSE <<"Did you mean:">> \o [i \in 1..Len(Sorted(suggestions)) |->
                                                     NameStr(Sorted(suggestions)[i])])
         IN  Done(Ret("failed", msg, msg), d,
                  { Append(dirname, e) : e \in suggestions }, FALSE)
    ELSE IF IsDir(d, resolved_path)
    THEN Done(Ret("error", <<"Is a directory">>,
                  <<"System Error reading file:", "Is a directory">>), d, {resolved_path}, FALSE)
    ELSE IF d.files[resolved_path].binary
    THEN Done(Ret("failed", <<"Binary file detected", "Cannot read as text.">>,
                  <<"Binary file detected", "Cannot read as text.">>), d, {resolved_path}, FALSE)
    ELSE Done(Ret("success", <<>>,
                  <<"<file path=", RawStr(file_path), ">", "00001| ",
                    d.files[resolved_path].text, "</file>">>), d, {resolved_path}, FALSE)

\* write_file without its gateway check: the file is written wherever the
\* raw path leads
write_file_unchecked(d, file_path, content) ==
    LET where == Resolve(Join(PROJECT_ROOT, file_path)) IN
    IF file_path.kind = "str" /\ CanOpenW(d, where)
    THEN Done(Ret("success", <<>>, <<"Success: Wrote", "bytes", "to", RawStr(file_path)>>),
              WriteContent(d, where, content), {where}, FALSE)
    ELSE Done(Ret("failed", <<"Not a directory">>, <<"Error writing file:", "Not a directory">>),
              d, {}, FALSE)

\* tools/write.py:7-69
write_file(d, file_path, content) ==
    LET r == resolve_path(file_path) IN
    IF ~r.ok
    THEN Done(Ret("failed", <<"Security", "Error:">> \o r.err,
                            <<"Security", "Error:">> \o r.err), d, {}, FALSE)
    ELSE LET resolved_path == r.path
             dir_name == Parent(r.path)
         IN
    IF IsDir(d, resolved_path)
    THEN Done(Ret("failed", <<"Cannot write to", RawStr(file_path), "It is a directory.">>,
                  <<"Cannot write to", RawStr(file_path), "It is a directory.">>), d, {}, FALSE)
    ELSE IF ~Exists(d, dir_name) /\ ~CanMakeDirs(d, dir_name)
    THEN Done(Ret("failed", <<"Failed to create directory", SegsStr(dir_name)>>,
                  <<"Failed to create directory", SegsStr(dir_name)>>), d, {}, FALSE)
    ELSE LET d1 == IF ~Exists(d, dir_name) THEN MakeDirs(d, dir_name) ELSE d IN
    IF ~CanOpenW(d1, resolved_path)
    THEN Done(Ret("failed", <<"Not a directory">>, <<"Error writing file:", "Not a directory">>),
              d1, {}, FALSE)
    ELSE Done(Ret("success", <<>>, <<"Success: Wrote", "bytes", "to", RawStr(file_path)>>),
              WriteContent(d1, resolved_path, content), {resolved_path}, FALSE)

\* os.path.join(base, path) of two raw paths
JoinRaw(base, path) ==
    IF path.abs THEN path
    ELSE [abs |-> base.abs, segs |-> base.segs \o path.segs,
          kind |-> IF base.kind = "nul" THEN "nul" ELSE path.kind]

\* tools/edit.py:8-58; workdir None is the raw path "."
edit_file(d, file_path, content, workdir) ==
    IF file_path.kind = "nonstr" \/ workdir.kind = "nonstr"
    THEN Done(Ret("failed", <<"join() argument must be str">>,
                  <<"Unexpected error:", "join() argument must be str">>), d, {}, FALSE)
    ELSE LET target_relative_path == JoinRaw(workdir, file_path)
             r == resolve_path(target_relative_path)
         IN
    IF ~r.ok
    THEN Done(Ret("failed", <<"Security", "check failed:">> \o r.err,
                            <<"Security", "check failed:">> \o r.err), d, {}, FALSE)
    ELSE LET full_abs_path == r.path
             parent_dir == Parent(r.path)
         IN
    IF ~Exists(d, parent_dir) /\ ~CanMakeDirs(d, parent_dir)
    THEN Done(Ret("failed", <<"IO Error:", "Not a directory">>,
                  <<"Failed to write file:", "Not a directory">>), d, {}, FALSE)
    ELSE LET d1 == IF ~Exists(d, parent_dir) THEN MakeDirs(d, parent_dir) ELSE d IN
    IF ~CanOpenW(d1, full_abs_path)
    THEN LET why == IF full_abs_path \in d1.dirs THEN "Is a directory" ELSE "Not a directory"
         IN  Done(Ret("failed", <<"IO Error:", why>>, <<"Failed to write file:", why>>),
                  d1, {}, FALSE)
    ELSE Done(Ret("success", <<>>, <<"Successfully wrote", "characters to", RawStr(file_path)>>),
              WriteContent(d1, full_abs_path, content), {full_abs_path}, FALSE)

\* tools/list.py:9-90, with ignore left at its default
list_files(d, path) ==
    LET r == resolve_path(path) IN
    IF ~r.ok
    THEN Done(Ret("error", <<"Security", "Error:">> \o r.err, <<>>), d, {}, FALSE)
    ELSE LET resolved_path == r.path IN
    IF ~Exists(d, resolved_path)
    THEN Done(Ret("error", <<"Directory not found:", RawStr(path)>>, <<>>), d, {}, FALSE)
    ELSE IF ~IsDir(d, resolved_path)
    THEN Done(Ret("error", <<"Path is not a directory:", RawStr(path)>>, <<>>), d, {}, FALSE)
    ELSE LET entries == Sorted(ListDir(d, resolved_path))
             formatted_entries ==
                 [i \in 1..Len(entries) |->
                     IF IsDir(d, Append(resolved_path, entries[i]))
                     THEN NameStr(entries[i]) \o "/" ELSE NameStr(entries[i])]
         IN  Done(Ret("success", <<>>,
                      IF formatted_entries = <<>> THEN <<"(empty directory)">>
                      ELSE formatted_entries),
                  d, {resolved_path} \cup { Append(resolved_path, e) : e \in ListDir(d, resolved_path) },
                  FALSE)


\* ---- grep_tool
\* tools/grep.py:63
DEFAULT_EXCLUDES ==
    { N_git,
      <<"n", "o", "d", "e", "_", "m", "o", "d", "u", "l", "e", "s">>,
      <<"_", "_", "p", "y", "c", "a", "c", "h", "e", "_", "_">>,
      <<".", "n", "e", "x", "t">>,
      <<"d", "i", "s", "t">>,
      <<"b", "u", "i", "l", "d">>,
      <<".", "D", "S", "_", "S", "t", "o", "r", "e">> }

\* os.walk(top) with the pruning of grep_tool: the files below top, where no
\* directory on the way is a link (followlinks is off) or a default exclude
WalkFiles(d, top) ==
    { f \in DOMAIN d.files :
        /\ InParents(top, f)
        /\ \A k \in (Len(top) + 1)..(Len(f) - 1) : f[k] \notin DEFAULT_EXCLUDES }

\* A query: [kind |-> "ok" for a pattern re.compile takes, "re_error" for one it
\* refuses with re.error, "overflow" for one it refuses with OverflowError,
\* "nonstr" for a value that is no string; pat |-> the pattern].  The pattern
\* "." is found in every line that is not empty, any other pattern in the
\* lines equal to it.
RegexSearch(query, line) == (query.pat = "." /\ line # "") \/ query.pat = line

\* tools/grep.py:10-140, with include, exclude and case_sensitive left at
\* their defaults
grep_tool(d, query, path) ==
    LET r == resolve_path(path) IN
    IF ~r.ok
    THEN Done(Ret("error", <<"Security", "Error:">> \o r.err, <<>>), d, {}, FALSE)
    ELSE LET target_dir == r.path
             workspace_root == resolve_path(RawPath(FALSE, <<N_dot>>)).path
         IN
    IF ~Exists(d, target_dir)
    THEN Done(Ret("error", <<"Path not found:", RawStr(path)>>, <<>>), d, {}, FALSE)
    ELSE IF query.kind = "re_error"
    THEN Done(Ret("error", <<"Invalid Regex:">>, <<>>), d, {}, FALSE)
    ELSE IF query.kind = "overflow" THEN Raised("OverflowError", d)
    ELSE IF query.kind = "nonstr" THEN Raised("TypeError", d)
    ELSE LET files_to_scan == IF IsFile(d, target_dir) THEN {target_dir}
                              ELSE WalkFiles(d, target_dir)
             hits == { f \in files_to_scan :
                         ~d.files[f].binary /\ RegexSearch(query, d.files[f].text) }
             \* os.walk gives the files in the order of os.listdir; the sorted
             \* one is taken here
             order == SortedPaths(hits)
             formatted_lines ==
                 [i \in 1..Len(order) |->
                     SegsStr(RelativeParts(order[i], workspace_root)) \o ":1: "
                         \o d.files[order[i]].text]
         IN  Done(Ret("success", <<>>,
                      IF hits = {} THEN <<"No matches found.">> ELSE formatted_lines),
                  d, files_to_scan, FALSE)

\* ---- glob_tool
N_star == <<"*">>

\* glob.glob(pattern, recursive=True, root_dir=base): the raw name sequences
\* that match the names of the pattern left to right; "*" stands for every
\* entry of the directory whose name does not start with ".", another name
\* for itself if it exists there
RECURSIVE GlobSegs(_, _, _, _)
GlobSegs(d, base, done, rest) ==
    IF rest = <<>> THEN {done}
    ELSE IF Head(rest) = N_star
    THEN LET dir == Resolve(base \o done) IN
         IF dir \in d.dirs
         THEN UNION { GlobSegs(d, base, Append(done, e), Tail(rest)) :
                        e \in { n \in ListDir(d, dir) : ~StartsWithDot(n) } }
         ELSE {}
    ELSE IF LExists(d, base \o Append(done, Head(rest)))
         THEN GlobSegs(d, base, Append(done, Head(rest)), Tail(rest))
         ELSE {}

\* the physical path a match names (its last name is not followed)
MatchPath(base, m) ==
    IF Last(m) \in {N_dot, N_dotdot, N_empty} THEN Resolve(base \o m)
    ELSE Append(Resolve(base \o Parent(m)), Last(m))

\* tools/glob.py:10-78, with exclude left at its default
glob_tool(d, pattern) ==
    LET r == resolve_path(RawPath(FALSE, <<N_dot>>)) IN
    IF ~r.ok
    THEN Done(Ret("failed", <<"Security", "Error:">> \o r.err,
                            <<"Security", "Error:">> \o r.err), d, {}, FALSE)
    ELSE LET search_root == r.path IN
    IF pattern.kind = "nonstr"
    THEN Done(Ret("error", <<"expected str">>, <<"Glob Error:", "expected str">>), d, {}, FALSE)
    ELSE LET base == IF pattern.abs THEN <<>> ELSE search_root
             raw_matches == IF pattern.kind = "nul" \/ pattern.segs = <<>> THEN {}
                            ELSE GlobSegs(d, base, <<>>, pattern.segs)
             order == SortedPaths(raw_matches)
             formatted_matches ==
                 [i \in 1..Len(order) |->
                     (IF pattern.abs THEN "/" ELSE "") \o SegsStr(order[i]) \o
                     (IF IsDir(d, base \o order[i]) THEN "/" ELSE "")]
         IN  Done(Ret("success", <<>>,
                      IF raw_matches = {} THEN <<"No matches found.">> ELSE formatted_matches),
                  d, { MatchPath(base, m) : m \in raw_matches }, FALSE)

\* ---- bash_tool
\* A command: [op |-> "cat" or "touch", path |-> a raw path].  The shell takes
\* the path from its working directory and knows nothing of the sandbox.
RunCommand(d, cwd, command) ==
    LET where == Resolve(Join(cwd, command.path)) IN
    IF command.op = "cat"
    THEN IF where \in DOMAIN d.files
         THEN Done(Ret("0", <<>>, <<d.files[where].text>>), d, {where}, TRUE)
         ELSE Done(Ret("1", <<>>, <<>>), d, {}, TRUE)
    ELSE IF CanOpenW(d, where) /\ where \notin DOMAIN d.files
         THEN Done(Ret("0", <<>>, <<>>), WriteContent(d, where, ""), {where}, TRUE)
         ELSE Done(Ret(IF where \in DOMAIN d.files THEN "0" ELSE "1", <<>>, <<>>), d, {}, TRUE)

\* tools/bash.py:9-61, for a command that ends before the timeout; workdir
\* None or "" is the raw path with no names
bash_tool(d, command, workdir) ==
    LET r == IF workdir.kind = "str" /\ workdir.segs = <<>> /\ ~workdir.abs
             THEN resolve_path(RawPath(FALSE, <<N_dot>>))
             ELSE resolve_path(workdir)
    IN
    IF ~r.ok
    THEN Done(Ret("-1", <<"Security", "Violation:">> \o r.err, <<>>), d, {}, FALSE)
    ELSE LET target_dir == r.path IN
    IF ~Exists(d, target_dir)
    THEN Done(Ret("-1", <<"Directory not found:", RawStr(workdir)>>, <<>>), d, {}, FALSE)
    ELSE IF ~IsDir(d, target_dir)
    THEN Done(Ret("-1", <<"Not a directory">>, <<>>), d, {}, FALSE)
    ELSE RunCommand(d, target_dir, command)

\* ---- bash_tool under its timeout: tools/bash.py:36-61
\* Time is counted in seconds (timeout_sec = timeout / 1000.0).  A process:
\* [call, role, left, pipe]: the bash_tool call that started it, "shell" for
\* the process subprocess.run started (the Popen child, /bin/bash -c command)
\* and "child" for a process the shell forked, the seconds its program still
\* runs (-1 for a shell that interprets the command), and whether it holds
\* the write end of the stdout/stderr pipes.
\*
\* A command is the steps /bin/bash takes for it:
\*   exec  the shell replaces itself by the program (a single simple command)
\*   fork  the shell starts the program in a child and goes on
\*   wait  the shell waits until its children have ended
\*   echo  a builtin that writes a word
MaxBash == 2        \* calls of bash_tool

ShStep(do, dur, pipe, word) == [do |-> do, dur |-> dur, pipe |-> pipe, word |-> word]

BashCommands ==
    { [text |-> "sleep 2",
       steps |-> <<ShStep("exec", 2, TRUE, "")>>],
      [text |-> "sleep 2; echo x",
       steps |-> <<ShStep("fork", 2, TRUE, ""), ShStep("wait", 0, TRUE, ""),
                   ShStep("echo", 0, TRUE, "x")>>],
      [text |-> "sleep 2 & wait",
       steps |-> <<ShStep("fork", 2, TRUE, ""), ShStep("wait", 0, TRUE, "")>>],
      [text |-> "sleep 2 & echo started",
       steps |-> <<ShStep("fork", 2, TRUE, ""), ShStep("echo", 0, TRUE, "started")>>],
      [text |-> "sleep 2 >/dev/null 2>&1 & echo started",
       steps |-> <<ShStep("fork", 2, FALSE, ""), ShStep("echo", 0, TRUE, "started")>>],
      [text |-> "echo x",
       steps |-> <<ShStep("echo", 0, TRUE, "x")>>] }

\* the timeout argument, in milliseconds
BashTimeouts == {1000, 3000}

\* tools/bash.py:17-22
BashResult(stdout, exceeded, exit_code, error) ==
    [stdout |-> stdout, exceeded |-> exceeded, exit_code |-> exit_code, error |-> error]

NoRun ==
    [pc |-> "idle", call |-> 0, command |-> "", steps |-> <<>>, timeout |-> 0,
     clock |-> 0, step |-> 0, out |-> <<>>, result |-> BashResult(<<>>, 0, -1, "None")]

Proc(call, role, left, pipe) == [call |-> call, role |-> role, left |-> left, pipe |-> pipe]

\* the Popen child of the current call, while it lives
ShellOf(ps, call) == { p \in ps : p.call = call /\ p.role = "shell" }

\* the shell interprets the command and is not blocked in wait
ShellCanStep ==
    /\ sub.pc = "communicate"
    /\ \E p \in ShellOf(procs, sub.call) : p.left = -1
    /\ sub.step <= Len(sub.steps) =>
          (sub.steps[sub.step].do = "wait" =>
              ~\E p \in procs : p.call = sub.call /\ p.role = "child")

\* Popen.communicate has all it waits for: the pipes are at end of file (no
\* process holds their write end) and the Popen child has ended
CommunicateDone ==
    /\ ShellOf(procs, sub.call) = {}
    /\ ~\E p \in procs : p.call = sub.call /\ p.pipe

\* tools/bash.py:36-47: bash_tool is called with a command and a timeout;
\* subprocess.run starts /bin/bash -c command and waits in communicate
BashCall ==
    /\ sub.pc \in {"idle", "returned"}
    /\ sub.call < MaxBash
    /\ \E command \in BashCommands, timeout \in BashTimeouts :
          /\ sub' = [pc |-> "communicate", call |-> sub.call + 1, command |-> command.text,
                     steps |-> command.steps, timeout |-> timeout, clock |-> 0, step |-> 1,
                     out |-> <<>>, result |-> BashResult(<<>>, 0, -1, "None")]
          /\ procs' = procs \cup {Proc(sub.call + 1, "shell", -1, TRUE)}
    /\ UNCHANGED <<hvars, fsvars, tvars, cvars, avars, ovars>>

\* /bin/bash takes the next step of the command, or exits at its end
ShellStep ==
    /\ ShellCanStep
    /\ LET me == CHOOSE p \in ShellOf(procs, sub.call) : TRUE IN
       IF sub.step > Len(sub.steps)
       THEN /\ procs' = procs \ {me}
            /\ sub' = sub
       ELSE LET st == sub.steps[sub.step] IN
            /\ procs' = CASE st.do = "exec" ->
                               (procs \ {me}) \cup {Proc(sub.call, "shell", st.dur, TRUE)}
                          [] st.do = "fork" ->
                               procs \cup {Proc(sub.call, "child", st.dur, st.pipe)}
                          [] OTHER -> procs
            /\ sub' = [sub EXCEPT !.step = @ + 1,
                                   !.out = IF st.do = "echo" THEN Append(@, st.word) ELSE @]
    /\ UNCHANGED <<hvars, fsvars, tvars, cvars, avars, ovars>>

\* a program that has run its time ends
ProcessExits ==
    /\ \E p \in procs :
          /\ p.left = 0
          /\ procs' = procs \ {p}
    /\ UNCHANGED <<hvars, sub, fsvars, tvars, cvars, avars, ovars>>

\* a second passes: for every program that runs, and for the timeout of a
\* call that waits in communicate
Tick ==
    /\ \E p \in procs : p.left > 0
    /\ ~\E p \in procs : p.left = 0
    /\ ~ShellCanStep
    /\ sub.pc = "communicate" => (sub.clock * 1000 < sub.timeout /\ ~CommunicateDone)
    /\ procs' = { IF p.left > 0 THEN [p EXCEPT !.left = @ - 1] ELSE p : p \in procs }
    /\ sub' = IF sub.pc = "communicate" THEN [sub EXCEPT !.clock = @ + 1] ELSE sub
    /\ UNCHANGED <<hvars, fsvars, tvars, cvars, avars, ovars>>

\* tools/bash.py:38-51: subprocess.run returns the CompletedProcess
Completed ==
    /\ sub.pc = "communicate"
    /\ CommunicateDone
    /\ sub' = [sub EXCEPT !.pc = "returned",
                          !.result = BashResult(sub.out, 0, 0, "None")]
    /\ UNCHANGED <<hvars, procs, fsvars, tvars, cvars, avars, ovars>>

\* subprocess.run on the expiry of the timeout: process.kill() sends SIGKILL
\* to the Popen child, process.wait() reaps it, TimeoutExpired is raised
KillOnTimeout(ps, call) == ps \ ShellOf(ps, call)

\* tools/bash.py:53-55,61: the timeout expires while communicate waits
TimeoutExpired ==
    /\ sub.pc = "communicate"
    /\ ~CommunicateDone
    /\ sub.clock * 1000 >= sub.timeout
    /\ procs' = KillOnTimeout(procs, sub.call)
    /\ sub' = [sub EXCEPT !.pc = "returned",
                          !.result = BashResult(<<>>, sub.timeout, -1, "Command timed out")]
    /\ UNCHANGED <<hvars, fsvars, tvars, cvars, avars, ovars>>

-----------------------------------------------------------------------------
(* utils/context.py: ContextManager.                                       *)
(*                                                                         *)
(* A Python value that is None or a string: [none, text].  A message:      *)
(* [role, content, has_id, tool_call_id, tool_calls]; has_id says whether  *)
(* the dict has the key "tool_call_id"; tool_calls is empty but in the     *)
(* message object of a tool-call response.                                 *)

None      == [none |-> TRUE,  text |-> <<>>]
Str(text) == [none |-> FALSE, text |-> text]

\* str(v)
PyStr(v) == IF v.none THEN <<"None">> ELSE v.text

\* bool(v) of an id: None and "" are false
Truthy(id) == ~id.none /\ id.text # <<>> /\ id.text # <<"">>

Message(role, content) ==
    [role |-> role, content |-> content, has_id |-> FALSE, tool_call_id |-> None,
     tool_calls |-> <<>>]

\* utils/context.py:4-14
\* int((model_limit - max_output) * 0.95): int() cuts towards zero
SafeTokenLimit(model_limit, max_output) ==
    LET n == model_limit - max_output
    IN  IF n >= 0 THEN (n * 95) \div 100 ELSE -((-n * 95) \div 100)

ContextManager(system_prompt, model_limit, max_output) ==
    [system_prompt    |-> system_prompt,
     safe_token_limit |-> SafeTokenLimit(model_limit, max_output),
     messages         |-> <<system_prompt>>]

\* an add_message that keeps the System message and the two newest messages
add_message_rolling(self, role, content, tool_call_id) ==
    LET msg == Message(role, Str(PyStr(content)))
        all == Append(self.messages, msg)
    IN  [self EXCEPT !.messages =
            IF Len(all) <= 3 THEN all
            ELSE <<all[1]>> \o SubSeq(all, Len(all) - 1, Len(all))]

\* utils/context.py:16-20
add_message(self, role, content, tool_call_id) ==
    LET msg == Message(role, Str(PyStr(content)))
    IN  [self EXCEPT !.messages =
            Append(@, IF Truthy(tool_call_id)
                      THEN [msg EXCEPT !.has_id = TRUE, !.tool_call_id = tool_call_id]
                      ELSE msg)]

\* utils/context.py:22-23
add_tool_calls(self, message_object) ==
    [self EXCEPT !.messages = Append(@, message_object)]

\* an estimate at eight characters per token
EstimateTokensEighth(text) == StrLen(text) \div 8

\* utils/context.py:25-26
EstimateTokens(text) == StrLen(text) \div 4

\* utils/context.py:39-40: msg.get("content", ""), then str() of it
MsgTokens(msg) == EstimateTokens(PyStr(msg.content))

\* a walk that passes over a message that does not fit and goes on
RECURSIVE RefineSkipping(_, _, _)
RefineSkipping(rest, current_tokens, limit) ==
    IF rest = <<>> THEN <<>>
    ELSE LET msg == rest[Len(rest)] IN
         IF current_tokens + MsgTokens(msg) <= limit
         THEN <<msg>> \o RefineSkipping(SubSeq(rest, 1, Len(rest) - 1),
                                        current_tokens + MsgTokens(msg), limit)
         ELSE RefineSkipping(SubSeq(rest, 1, Len(rest) - 1), current_tokens, limit)

\* utils/context.py:38-46: the messages taken, newest first, from rest (oldest
\* first) with current_tokens already spent
RECURSIVE Refine(_, _, _)
Refine(rest, current_tokens, limit) ==
    IF rest = <<>> THEN <<>>
    ELSE LET msg == rest[Len(rest)] IN
         IF current_tokens + MsgTokens(msg) <= limit
         THEN <<msg>> \o Refine(SubSeq(rest, 1, Len(rest) - 1),
                                current_tokens + MsgTokens(msg), limit)
         ELSE <<>>

\* list(reversed(s))
Reversed(s) == [i \in 1..Len(s) |-> s[Len(s) + 1 - i]]

\* a view that treats the System message like any other message
get_messages_budgeted(self) ==
    Reversed(RefineSkipping(self.messages, 0, self.safe_token_limit))

\* utils/context.py:28-50
get_messages(self) ==
    LET current_tokens == EstimateTokens(PyStr(self.system_prompt.content))
        refined_history == Refine(Tail(self.messages), current_tokens, self.safe_token_limit)
    IN  <<self.system_prompt>> \o Reversed(refined_history)

\* a clear that keeps the newest message
clear_keep_last(self) ==
    [self EXCEPT !.messages =
        IF Len(@) <= 1 THEN <<self.system_prompt>>
        ELSE <<self.system_prompt, @[Len(@)]>>]

\* utils/context.py:52-53
clear(self) == [self EXCEPT !.messages = <<self.system_prompt>>]

-----------------------------------------------------------------------------
(* tool_registry.py: execute_tool_call, on the registry as loaded from the *)
(* seven units of tools/.                                                  *)
(*                                                                         *)
(* An argument payload is [form, keys, path, query, command]: form says    *)
(* what json.loads makes of it, keys are the argument names of the object, *)
(* path is the value of the path-like argument (file_path, path, pattern), *)
(* query and command the values of those arguments.  Parsed arguments are  *)
(* [kind, keys, path, query, command] with kind "dict", "list" or "none".  *)

Q_any == [kind |-> "ok", pat |-> "."]
C_cat == [op |-> "cat", path |-> RawPath(FALSE, <<N_x>>)]

Payload(form, keys, path, query) ==
    [form |-> form, keys |-> keys, path |-> path, query |-> query, command |-> C_cat]

Args(kind, payload) ==
    [kind |-> kind, keys |-> payload.keys, path |-> payload.path, query |-> payload.query,
     command |-> payload.command]

\* {} and None as argument values
EmptyArgs == Args("dict", Payload("object", {}, NonStrPath, Q_any))
NoArgs    == Args("none", Payload("object", {}, NonStrPath, Q_any))

\* tool_registry.py:81-86: the keys of get_tool_map()
tool_map ==
    {"read_file", "write_file", "edit_file", "list_files", "grep_tool", "glob_tool",
     "bash_tool"}

\* the parameters of each tool's signature
Params(tool_name) ==
    CASE tool_name = "read_file"  -> {"file_path", "offset", "limit"}
      [] tool_name = "write_file" -> {"file_path", "content"}
      [] tool_name = "edit_file"  -> {"file_path", "content", "workdir"}
      [] tool_name = "list_files" -> {"path", "ignore"}
      [] tool_name = "grep_tool"  -> {"query", "path", "include", "exclude", "case_sensitive"}
      [] tool_name = "glob_tool"  -> {"pattern", "exclude"}
      [] tool_name = "bash_tool"  -> {"command", "workdir", "timeout"}
      [] OTHER -> {}

\* the parameters without a default
Required(tool_name) ==
    CASE tool_name = "read_file"  -> {"file_path"}
      [] tool_name = "write_file" -> {"file_path", "content"}
      [] tool_name = "edit_file"  -> {"file_path", "content"}
      [] tool_name = "grep_tool"  -> {"query"}
      [] tool_name = "glob_tool"  -> {"pattern"}
      [] tool_name = "bash_tool"  -> {"command"}
      [] OTHER -> {}

\* func(**tool_args) binds: tool_args is a mapping, names only parameters and
\* names every parameter that has no default
Binds(tool_name, tool_args) ==
    /\ tool_args.kind = "dict"
    /\ tool_args.keys \subseteq Params(tool_name)
    /\ Required(tool_name) \subseteq tool_args.keys

\* the value bound to a path parameter: the argument, or the default
PathArg(tool_args, key, default) ==
    IF key \in tool_args.keys THEN tool_args.path ELSE default

\* tool_registry.py:113: result = func(**tool_args), for arguments that bind
CallTool(tool_name, d, tool_args) ==
    LET here == RawPath(FALSE, <<N_dot>>)
        none == RawPath(FALSE, <<>>)
    IN  CASE tool_name = "read_file"  -> read_file(d, tool_args.path)
          [] tool_name = "write_file" -> write_file(d, tool_args.path, "new")
          [] tool_name = "edit_file"  -> edit_file(d, tool_args.path, "new", none)
          [] tool_name = "list_files" -> list_files(d, PathArg(tool_args, "path", here))
          [] tool_name = "grep_tool"  -> grep_tool(d, tool_args.query,
                                                   PathArg(tool_args, "path", here))
          [] tool_name = "glob_tool"  -> glob_tool(d, tool_args.path)
          [] OTHER                    -> bash_tool(d, tool_args.command, none)

\* what a dispatch did: the text returned, the disk afterwards, whether a tool
\* body ran
Dispatched(text, d, invoked) ==
    [text |-> text, disk |-> d, invoked |-> invoked, raised |-> ""]

\* a dispatch that lets the exception of the tool body pass
ReturnedUnhandled(tool_name, out) ==
    IF out.raised = ""
    THEN Dispatched(Dumps(out.ret), out.disk, TRUE)
    ELSE [Dispatched(<<>>, out.disk, TRUE) EXCEPT !.raised = out.raised]

\* tool_registry.py:113-122: str(result), or the text for the exception that
\* func(**tool_args) raised
Returned(tool_name, out) ==
    IF out.raised = ""
    THEN Dispatched(Dumps(out.ret), out.disk, TRUE)
    ELSE IF out.raised = "TypeError"
    THEN Dispatched(<<"Error executing", tool_name, "Invalid arguments provided",
                      "Details:", out.raised>>, out.disk, TRUE)
    ELSE Dispatched(<<"Error inside tool", tool_name, out.raised>>, out.disk, TRUE)

\* a dispatch that looks no name up and calls what CallTool falls back to
execute_tool_call_unchecked(d, tool_name, tool_args) ==
    IF ~Binds(tool_name, tool_args)
    THEN Dispatched(<<"Error executing", tool_name, "Invalid arguments provided", "Details:">>,
                    d, FALSE)
    ELSE Returned(tool_name, CallTool(tool_name, d, tool_args))

\* tool_registry.py:88-122
execute_tool_call(d, tool_name, tool_args) ==
    IF tool_name \notin tool_map
    THEN Dispatched(<<"Error: Tool", tool_name, "not found", "Please use one of the provided tools.">>,
                    d, FALSE)
    ELSE IF ~Binds(tool_name, tool_args)
    THEN Dispatched(<<"Error executing", tool_name, "Invalid arguments provided", "Details:">>,
                    d, FALSE)
    ELSE Returned(tool_name, CallTool(tool_name, d, tool_args))

-----------------------------------------------------------------------------
(* tool_registry.py: the discovery cache and _scan_and_load_tools.  A file *)
(* of the tools directory is [name, py, dunder, loads, members]: py and    *)
(* dunder say whether its name ends with ".py" and starts with "__", loads *)
(* whether executing it succeeds, members are the members of the module in *)
(* the order of inspect.getmembers.  A member is [name, shape, schema]:    *)
(* schema is "named" for a function with a schema that has a name, "blank" *)
(* for a schema without a name, "none" for a member without schema.  A     *)
(* list or dict object built by a scan is [scan, funcs, list]; scan tells  *)
(* objects of different scans apart.                                       *)

MaxScans == 2       \* scans of the tools directory in one behaviour

Threads == {1, 2}

Member(name, shape, schema) == [name |-> name, shape |-> shape, schema |-> schema]

ToolFile(name, py, dunder, loads, members) ==
    [name |-> name, py |-> py, dunder |-> dunder, loads |-> loads, members |-> members]

\* the tools directory: read_file and write_file, each in a file of its own
ToolsDir0 ==
    << ToolFile("__init__", TRUE, TRUE, TRUE, <<>>),
       ToolFile("read", TRUE, FALSE, TRUE, <<Member("read_file", "a", "named")>>),
       ToolFile("write", TRUE, FALSE, TRUE,
                <<Member("_check", "", "none"), Member("write_file", "a", "named")>>) >>

\* the tools directory later: write is gone, read_file has other parameters,
\* edit is new and imports read_file, broken fails to load
ToolsDir1 ==
    << ToolFile("broken", TRUE, FALSE, FALSE, <<>>),
       ToolFile("edit", TRUE, FALSE, TRUE,
                <<Member("edit_file", "a", "named"), Member("read_file", "b", "named")>>),
       ToolFile("notes", FALSE, FALSE, FALSE, <<>>),
       ToolFile("read", TRUE, FALSE, TRUE,
                <<Member("draft", "a", "blank"), Member("read_file", "b", "named")>>) >>

ToolsDirs == {ToolsDir0, ToolsDir1}

\* the file called name in directory dir, as a set of at most one file
FileNamed(dir, name) == { dir[i] : i \in { j \in 1..Len(dir) : dir[j].name = name } }

NoModules == [f \in {} |-> <<>>]

MapObj(scan, funcs) == [scan |-> scan, funcs |-> funcs, list |-> <<>>]
ListObj(scan, list) == [scan |-> scan, funcs |-> {}, list |-> list]
NoObj == [scan |-> 0 - 1, funcs |-> {}, list |-> <<>>]

\* tool_registry.py:12-16
TOOL_CACHE == [schemas |-> ListObj(0, <<>>), map |-> MapObj(0, {}), is_loaded |-> FALSE]

\* a test that never finds the registry loaded
UsesCacheNever(c, force_reload) == FALSE

\* tool_registry.py:29: if _TOOL_CACHE["is_loaded"] and not force_reload
UsesCache(c, force_reload) == c.is_loaded /\ ~force_reload

\* tool_registry.py:43
IsToolModule(file) == file.py /\ ~file.dunder

\* a load that answers a failure with the module sys.modules still holds
LoadModuleKeepsOld(mods, dir, name, force_reload) ==
    LET onDisk == FileNamed(dir, name)
        good   == { f \in onDisk : f.loads }
    IN  IF good # {}
        THEN LET f == CHOOSE f \in good : TRUE
             IN  [raised |-> FALSE, members |-> f.members,
                  mods |-> [g \in DOMAIN mods \cup {name} |->
                               IF g = name THEN f.members ELSE mods[g]]]
        ELSE IF name \in DOMAIN mods
        THEN [raised |-> FALSE, members |-> mods[name], mods |-> mods]
        ELSE [raised |-> TRUE, members |-> <<>>, mods |-> mods]

\* tool_registry.py:50-53: importlib.reload or importlib.import_module of the
\* module called name, with dir on disk and mods in sys.modules
LoadModule(mods, dir, name, force_reload) ==
    LET onDisk == FileNamed(dir, name)
        exec   == IF onDisk = {} THEN [ok |-> FALSE, members |-> <<>>]
                  ELSE LET f == CHOOSE f \in onDisk : TRUE
                       IN  [ok |-> f.loads, members |-> f.members]
        stored == [f \in DOMAIN mods \cup {name} |->
                      IF f = name THEN exec.members ELSE mods[f]]
    IN  IF name \in DOMAIN mods /\ ~force_reload
        THEN [raised |-> FALSE, members |-> mods[name], mods |-> mods]
        ELSE IF exec.ok
        THEN [raised |-> FALSE, members |-> exec.members, mods |-> stored]
        ELSE [raised |-> TRUE, members |-> <<>>, mods |-> mods]

\* tool_registry.py:57-60
Registers(obj) == obj.schema = "named"

\* obj.schema
SchemaOf(obj) == [name |-> obj.name, shape |-> obj.shape]

\* tool_registry.py:61: temp_map[func_name] = obj
Put(temp_map, obj) == { g \in temp_map : g.name # obj.name } \cup {obj}

\* tool_registry.py:56-62: the members of one module registered in
\* [temp_map, temp_schemas]
RECURSIVE Inspect(_, _)
Inspect(temp, members) ==
    IF members = <<>> THEN temp
    ELSE LET obj == Head(members) IN
         IF Registers(obj)
         THEN Inspect([temp_map |-> Put(temp.temp_map, obj),
                       temp_schemas |-> Append(temp.temp_schemas, SchemaOf(obj))],
                      Tail(members))
         ELSE Inspect(temp, Tail(members))

\* tool_registry.py:41-65: the walk over the files called names, from the
\* locals and sys.modules in st = [mods, temp_map, temp_schemas]
RECURSIVE ScanModules(_, _, _, _)
ScanModules(st, dir, names, force_reload) ==
    IF names = <<>> THEN st
    ELSE LET r == LoadModule(st.mods, dir, Head(names), force_reload)
             temp == Inspect([temp_map |-> st.temp_map, temp_schemas |-> st.temp_schemas],
                             r.members)
         IN  ScanModules([mods |-> r.mods, temp_map |-> temp.temp_map,
                          temp_schemas |-> temp.temp_schemas],
                         dir, Tail(names), force_reload)

\* a thread that is in no registry call
Idle ==
    [pc |-> "idle", op |-> "", force |-> FALSE, temp_map |-> {}, temp_schemas |-> <<>>,
     scan |-> 0]

\* no Agent was constructed; no inference call was made
NoAgent == [made |-> FALSE, schemas |-> NoObj]
NotSent == [called |-> FALSE, schemas |-> NoObj]

-----------------------------------------------------------------------------
(* main.py: Config, AgentEvent and Agent.                                  *)

MODEL_CONTEXT_LIMIT == 131072
MAX_OUTPUT_TOKENS   == 8192
MAX_RETRIES         == 3
RETRY_DELAY         == 2

\* utils/prompts.py:67: get_system_prompt(Config.PERSONA)
SystemPrompt == Message("system", Str(<<"You are an expert coder.">>))

\* main.py:41-60: the memory of a new Agent
NewMemory == ContextManager(SystemPrompt, MODEL_CONTEXT_LIMIT, MAX_OUTPUT_TOKENS)

\* main.py:29-38
AgentEvent(type, content, tool_name, tool_id, tool_args) ==
    [type |-> type, content |-> content, tool_name |-> tool_name, tool_id |-> tool_id,
     tool_args |-> tool_args]

\* main.py:111-117: the event that announces the call of tool with args
ToolCallEvent(tool, args) ==
    AgentEvent("tool_call", Str(<<"Executing tool...">>), tool.name, tool.id, args)

\* a tool_result event that does not carry the result
ToolResultEventBlank(tool, text) ==
    AgentEvent("tool_result", Str(<<"Executing tool...">>), tool.name, tool.id, NoArgs)

\* main.py:124-129: the event that carries the result of tool
ToolResultEvent(tool, text) ==
    AgentEvent("tool_result", Str(text), tool.name, tool.id, NoArgs)

\* one entry of message.tool_calls
ToolCallReq(id, name, arguments) == [id |-> id, name |-> name, arguments |-> arguments]

\* response.choices[0].message
Response(content, none, calls) ==
    [content |-> content, tool_calls |-> [none |-> none, calls |-> calls]]

\* main.py:98: if message.tool_calls
HasToolCalls(message) == ~message.tool_calls.none /\ message.tool_calls.calls # <<>>

\* the message object as the transcript keeps it
MessageObject(message) ==
    [Message("assistant", message.content) EXCEPT !.tool_calls = message.tool_calls.calls]

\* main.py:106: json.loads(args_str) raises something that is not a
\* JSONDecodeError (a TypeError: the payload is no string)
LoadsRaises(args_str) == args_str.form = "notstr"

\* main.py:105-108: args, when json.loads does not raise past the except
LoadsArgs(args_str) ==
    CASE args_str.form = "object" -> Args("dict", args_str)
      [] args_str.form = "array"  -> Args("list", args_str)
      [] OTHER                    -> EmptyArgs

\* the retry test that allows one attempt more
ExhaustedLate(n) == n > MAX_RETRIES + 1

\* main.py:78: if retries > Config.MAX_RETRIES
Exhausted(n) == n > MAX_RETRIES

\* the same pause after every failure
DelayFixed(n) == RETRY_DELAY

\* main.py:80: the seconds slept after the n-th failure
Delay(n) == RETRY_DELAY * n

\* ---- a log of what the current run did, in order
Did(op, i, text) == [op |-> op, i |-> i, text |-> text]

\* a loop that dispatches the request at once, without waiting to be resumed
NextRequestEager(i, b, ev, tr) ==
    /\ idx' = i
    /\ pc' = "y_call"
    /\ events' = Append(ev, ToolCallEvent(b[i], LoadsArgs(b[i].arguments)))
    /\ trace' = tr \o <<Did("yield_call", i, <<>>), Did("dispatch", i, <<>>)>>

\* main.py:101-118: the head of the loop over the batch, for request i of b,
\* up to the yield of the tool_call event; ev and tr are the events and the log
\* so far
NextRequest(i, b, ev, tr) ==
    /\ idx' = i
    /\ IF LoadsRaises(b[i].arguments)
       THEN /\ pc' = "crashed"
            /\ events' = ev
            /\ trace' = Append(tr, Did("raise", i, <<"TypeError">>))
       ELSE /\ pc' = "y_call"
            /\ events' = Append(ev, ToolCallEvent(b[i], LoadsArgs(b[i].arguments)))
            /\ trace' = Append(tr, Did("yield_call", i, <<>>))

-----------------------------------------------------------------------------
(* SpecResolve: resolve_path applied to every raw path of the bounds.      *)

SegNames ==
    { N_dot, N_dotdot, N_env, N_git, N_hidden, N_venv, N_src, N_x, N_etc,
      N_out, N_lnk, N_dl, N_proj, N_proj2 }

SegSeqs(n) == UNION { [1..k -> SegNames] : k \in 0..n }

RawPaths == { RawPath(a, s) : a \in BOOLEAN, s \in SegSeqs(MaxSegs) } \cup { NulPath, NonStrPath }

NotCalled == [called |-> FALSE, res |-> SecurityError(<<>>)]

CallResolve ==
    /\ ~rp_out.called
    /\ rp_out' = [called |-> TRUE, res |-> resolve_path(rp_in)]
    /\ UNCHANGED <<hvars, bvars, rp_in, ovars, tvars, cvars, avars>>

-----------------------------------------------------------------------------
(* SpecTools: the filesystem tools called one after the other on the disk. *)

ToolPaths ==
    { RawPath(FALSE, segs) :
        segs \in { <<>>, <<N_dot>>, <<N_dotdot>>, <<N_env>>, <<N_src>>, <<N_x>>,
                   <<N_src, N_x>>, <<N_src, N_git>>, <<N_out, N_x>>, <<N_dl, N_x>>,
                   <<N_dotdot, N_proj2>>, <<N_src, N_x, N_x>>, <<N_x, N_x>>,
                   <<N_nv>> } }
    \cup { RawPath(TRUE, PROJECT_ROOT), RawPath(TRUE, <<N_etc, N_x>>), NulPath, NonStrPath }

WorkDirs == { RawPath(FALSE, <<>>), RawPath(FALSE, <<N_dotdot>>), RawPath(FALSE, <<N_src>>),
              NonStrPath }

Queries ==
    { [kind |-> "ok", pat |-> "."], [kind |-> "ok", pat |-> "SECRET"],
      [kind |-> "re_error", pat |-> "("], [kind |-> "overflow", pat |-> "a{99999999999}"],
      [kind |-> "nonstr", pat |-> ""] }

Patterns ==
    ToolPaths \cup
    { RawPath(FALSE, <<N_star>>), RawPath(FALSE, <<N_dotdot, N_star>>),
      RawPath(FALSE, <<N_star, N_star>>), RawPath(TRUE, <<N_etc, N_star>>) }

Commands == { [op |-> "cat", path |-> RawPath(FALSE, <<N_x>>)],
              [op |-> "cat", path |-> RawPath(TRUE, <<N_etc, N_x>>)],
              [op |-> "touch", path |-> RawPath(FALSE, <<N_x>>)] }

NoCall ==
    [tool |-> "", gated |-> FALSE, gate |-> NonStrPath, text |-> <<>>, accessed |-> {},
     ran |-> FALSE, raised |-> "", changed |-> FALSE]

\* a call of `tool` whose path argument `gate` went to the gateway (gated),
\* with outcome out
Record(tool, gated, gate, out) ==
    /\ ncalls < MaxCalls
    /\ ncalls' = ncalls + 1
    /\ disk' = out.disk
    /\ last' = [tool |-> tool, gated |-> gated, gate |-> gate, text |-> Dumps(out.ret),
                accessed |-> out.accessed, ran |-> out.ran, raised |-> out.raised,
                changed |-> (out.disk # disk)]
    /\ UNCHANGED <<hvars, bvars, fsvars, ovars, cvars, avars>>

CallReadFile ==
    \E p \in ToolPaths : Record("read_file", TRUE, p, read_file(disk, p))

CallWriteFile ==
    \E p \in ToolPaths : Record("write_file", TRUE, p, write_file(disk, p, "new"))

CallEditFile ==
    \E p \in ToolPaths, w \in WorkDirs :
        Record("edit_file", p.kind # "nonstr" /\ w.kind # "nonstr", JoinRaw(w, p),
               edit_file(disk, p, "new", w))

CallListFiles ==
    \E p \in ToolPaths : Record("list_files", TRUE, p, list_files(disk, p))

CallGrepTool ==
    \E p \in ToolPaths, q \in Queries : Record("grep_tool", TRUE, p, grep_tool(disk, q, p))

CallGlobTool ==
    \E p \in Patterns :
        Record("glob_tool", TRUE, RawPath(FALSE, <<N_dot>>), glob_tool(disk, p))

CallBashTool ==
    \E c \in Commands, w \in WorkDirs :
        Record("bash_tool", TRUE,
               IF w = RawPath(FALSE, <<>>) THEN RawPath(FALSE, <<N_dot>>) ELSE w,
               bash_tool(disk, c, w))

-----------------------------------------------------------------------------
(* SpecDispatch: execute_tool_call called with any name and any argument   *)
(* value, one call after the other on the disk.                            *)

DispatchNames == tool_map \cup {"nonexistent_tool", ""}

DispatchArgs ==
    LET KeySets == { {}, {"file_path"}, {"file_path", "content"}, {"path"}, {"query"},
                     {"query", "path"}, {"pattern"}, {"command"}, {"file_path", "mode"},
                     {"filepath"} }
        Paths   == { RawPath(FALSE, <<N_x>>), RawPath(FALSE, <<N_env>>), NonStrPath }
        Qs      == { [kind |-> "ok", pat |-> "."],
                     [kind |-> "overflow", pat |-> "a{99999999999}"],
                     [kind |-> "nonstr", pat |-> ""] }
    IN  { Args("dict", Payload("object", k, p, q)) : k \in KeySets, p \in Paths, q \in Qs }
        \cup { Args("list", Payload("array", {}, NonStrPath, Q_any)), NoArgs }

NoDispatch ==
    [called |-> FALSE, name |-> "", args |-> NoArgs, text |-> <<>>, raised |-> "",
     invoked |-> FALSE, inner |-> "", changed |-> FALSE]

\* the exception the body of the tool raises for these arguments, "" if the
\* body does not run or raises nothing
InnerException(d, tool_name, tool_args) ==
    IF tool_name \in tool_map /\ Binds(tool_name, tool_args)
    THEN CallTool(tool_name, d, tool_args).raised
    ELSE ""

CallDispatch ==
    /\ ncalls < MaxCalls
    /\ ncalls' = ncalls + 1
    /\ \E tool_name \in DispatchNames, tool_args \in DispatchArgs :
          \E out \in {execute_tool_call(disk, tool_name, tool_args)} :
             /\ disk' = out.disk
             /\ dispatched' =
                   [called |-> TRUE, name |-> tool_name, args |-> tool_args,
                    text |-> out.text, raised |-> out.raised, invoked |-> out.invoked,
                    inner |-> InnerException(disk, tool_name, tool_args),
                    changed |-> (out.disk # disk)]
    /\ UNCHANGED <<hvars, bvars, last, fsvars, rvars, cvars, avars>>

-----------------------------------------------------------------------------
(* SpecRegistry: two threads call get_all_tool_schemas, get_tool_map,      *)
(* execute_tool_call and Agent() while the files of the tools directory    *)
(* change.  A thread takes one step for the entry of _scan_and_load_tools  *)
(* with its walk over the files, one for each of the three stores into     *)
(* _TOOL_CACHE and one for the read of _TOOL_CACHE that gives the value it *)
(* returns.  What execute_tool_call does with the map   *)
(* is in SpecDispatch, what the Agent does with a response in Spec.        *)

\* execute_tool_call reads the map through get_tool_map() (line 97)
RegistryOps == {"get_all_tool_schemas", "get_tool_map", "Agent"}

\* the names of the files os.walk lists that pass the test of line 43
ModuleNames(dir) ==
    LET mods == SelectSeq(dir, IsToolModule)
    IN  [i \in 1..Len(mods) |-> mods[i].name]

\* tool_registry.py:18-65: the call of op enters _scan_and_load_tools, which
\* returns at once or walks the tools directory
Enter(t) ==
    /\ threads[t].pc = "idle"
    /\ \E op \in RegistryOps, refresh \in BOOLEAN :
          /\ op = "Agent" => (~refresh /\ ~tools.made /\ \A u \in Threads : threads[u].op # "Agent")
          /\ IF UsesCache(cache, refresh)
             THEN /\ scans' = scans
                  /\ sys_modules' = sys_modules
                  /\ threads' = [threads EXCEPT ![t] =
                        [Idle EXCEPT !.pc = "return", !.op = op, !.force = refresh]]
             ELSE /\ scans < MaxScans
                  /\ scans' = scans + 1
                  /\ \E st \in {ScanModules([mods |-> sys_modules, temp_map |-> {},
                                             temp_schemas |-> <<>>],
                                            units, ModuleNames(units), refresh)} :
                        /\ sys_modules' = st.mods
                        /\ threads' = [threads EXCEPT ![t] =
                              [pc |-> "store_map", op |-> op, force |-> refresh,
                               temp_map |-> st.temp_map, temp_schemas |-> st.temp_schemas,
                               scan |-> scans + 1]]
    /\ UNCHANGED <<hvars, bvars, units, cache, tools, sent, fsvars, tvars, cvars, avars, dvars>>

\* tool_registry.py:68
StoreMap(t) ==
    /\ threads[t].pc = "store_map"
    /\ cache' = [cache EXCEPT !.map = MapObj(threads[t].scan, threads[t].temp_map)]
    /\ threads' = [threads EXCEPT ![t].pc = "store_schemas"]
    /\ UNCHANGED <<hvars, bvars, units, sys_modules, scans, tools, sent, fsvars, tvars, cvars, avars, dvars>>

\* tool_registry.py:69
StoreSchemas(t) ==
    /\ threads[t].pc = "store_schemas"
    /\ cache' = [cache EXCEPT !.schemas = ListObj(threads[t].scan, threads[t].temp_schemas)]
    /\ threads' = [threads EXCEPT ![t].pc = "store_loaded"]
    /\ UNCHANGED <<hvars, bvars, units, sys_modules, scans, tools, sent, fsvars, tvars, cvars, avars, dvars>>

\* tool_registry.py:70
StoreLoaded(t) ==
    /\ threads[t].pc = "store_loaded"
    /\ cache' = [cache EXCEPT !.is_loaded = TRUE]
    /\ threads' = [threads EXCEPT ![t].pc = "return"]
    /\ UNCHANGED <<hvars, bvars, units, sys_modules, scans, tools, sent, fsvars, tvars, cvars, avars, dvars>>

\* tool_registry.py:79, 86, 97 and main.py:59: the call reads _TOOL_CACHE and
\* returns; Agent() keeps what it read in self.tools
Return(t) ==
    /\ threads[t].pc = "return"
    /\ threads' = [threads EXCEPT ![t] = Idle]
    /\ tools' = IF threads[t].op = "Agent"
                THEN [made |-> TRUE, schemas |-> cache.schemas]
                ELSE tools
    /\ UNCHANGED <<hvars, bvars, units, sys_modules, cache, scans, sent, fsvars, tvars, cvars, avars, dvars>>

\* main.py:68-75: chat_completion(..., tools=self.tools), as far as the
\* registry is concerned
CallLLM ==
    /\ tools.made
    /\ sent' = [called |-> TRUE, schemas |-> tools.schemas]
    /\ UNCHANGED <<hvars, bvars, units, sys_modules, cache, threads, scans, tools, fsvars, tvars, cvars, avars,
                   dvars>>

\* files of the tools directory are added, removed and edited
ChangeTools ==
    /\ units' \in ToolsDirs \ {units}
    /\ UNCHANGED <<hvars, bvars, sys_modules, cache, threads, scans, tools, sent, fsvars, tvars, cvars, avars,
                   dvars>>

-----------------------------------------------------------------------------
(* SpecCtx: a ContextManager built with any small limits, then driven by   *)
(* add_message, add_tool_calls, clear and get_messages.                    *)

MaxMsgs == 3        \* messages after the system prompt in the driven transcript

SystemPrompts ==
    { Message("system", Str(t)) : t \in { <<"You">>, <<"You are a", " coder">> } }

\* model_limit of the driven ContextManager; max_output is 1
ModelLimits == {0, 3, 5, 6, 8}

Contents == { Str(<<"abc">>), Str(<<"abcd", "efgh", "i">>), None }

Ids == { Str(<<"">>), Str(<<"call_1">>), None }

\* the message object of a response that asks for one tool call
CtxBatchMessage(content, id) ==
    [Message("assistant", content) EXCEPT
        !.tool_calls = <<ToolCallReq(id, "list_files",
                                     Payload("object", {}, NonStrPath, Q_any))>>]

NoSnap == [called |-> FALSE, msgs |-> <<>>]

CtxAddMessage ==
    /\ Len(ctx.messages) <= MaxMsgs
    /\ \E role \in {"user", "tool"}, content \in Contents, id \in Ids :
          /\ (role = "user" => id = None)
          /\ ctx' = add_message(ctx, role, content, id)
    /\ snap' = NoSnap
    /\ UNCHANGED <<hvars, bvars, fsvars, ovars, tvars, avars>>

CtxAddToolCalls ==
    /\ Len(ctx.messages) <= MaxMsgs
    /\ \E content \in {None, Str(<<"abcd", "efgh", "i">>)} :
          ctx' = add_tool_calls(ctx, CtxBatchMessage(content, Str(<<"call_1">>)))
    /\ snap' = NoSnap
    /\ UNCHANGED <<hvars, bvars, fsvars, ovars, tvars, avars>>

CtxClear ==
    /\ ctx' = clear(ctx)
    /\ snap' = NoSnap
    /\ UNCHANGED <<hvars, bvars, fsvars, ovars, tvars, avars>>

CtxGetMessages ==
    /\ snap' = [called |-> TRUE, msgs |-> get_messages(ctx)]
    /\ UNCHANGED <<hvars, bvars, ctx, fsvars, ovars, tvars, avars>>

-----------------------------------------------------------------------------
(* Spec: one Agent.  The caller starts chat runs, takes their events one   *)
(* by one, may drop a suspended run and may call clear_memory between      *)
(* events; the inference service fails or answers as it likes.             *)

MaxRounds == 2      \* responses with tool calls, over all runs
MaxChats  == 2      \* calls of chat

UserInputs == { Str(<<"list the project">>) }

\* message.tool_calls of the responses that ask for tools: requests that
\* succeed, that the gateway refuses, that name no tool, that do not bind, that
\* fail inside the tool, with a malformed, a non-object and a null payload, and
\* with an empty id
Batches ==
    LET Id(n) == Str(<<n>>)
        Object(keys, path) == Payload("object", keys, path, Q_any)
        R_list      == ToolCallReq(Id("call_1"), "list_files", Object({}, NonStrPath))
        R_list2     == ToolCallReq(Id("call_2"), "list_files",
                                   Object({"path"}, RawPath(FALSE, <<N_src>>)))
        R_noid      == ToolCallReq(Id(""), "list_files", Object({}, NonStrPath))
        R_escape    == ToolCallReq(Id("call_1"), "read_file",
                                   Object({"file_path"}, RawPath(FALSE, <<N_dotdot, N_x>>)))
        R_write     == ToolCallReq(Id("call_1"), "write_file",
                                   Object({"file_path", "content"}, RawPath(FALSE, <<N_x>>)))
        R_badkey    == ToolCallReq(Id("call_3"), "write_file",
                                   Object({"file_path", "content", "mode"},
                                          RawPath(FALSE, <<N_x>>)))
        R_unknown   == ToolCallReq(Id("call_2"), "delete_file",
                                   Object({"file_path"}, RawPath(FALSE, <<N_src, N_x>>)))
        R_internal  == ToolCallReq(Id("call_1"), "grep_tool",
                                   Payload("object", {"query"}, NonStrPath,
                                           [kind |-> "overflow", pat |-> "a{99999999999}"]))
        R_malformed == ToolCallReq(Id("call_2"), "read_file",
                                   Payload("malformed", {}, NonStrPath, Q_any))
        R_array     == ToolCallReq(Id("call_3"), "list_files",
                                   Payload("array", {}, NonStrPath, Q_any))
        R_null      == ToolCallReq(Id("call_2"), "list_files",
                                   Payload("notstr", {}, NonStrPath, Q_any))
    IN  { <<R_write, R_list2>>, <<R_escape, R_unknown, R_badkey>>,
          <<R_internal, R_malformed, R_array>>, <<R_list, R_null>>, <<R_noid>> }

Responses ==
    { Response(IF Len(b) = 1 THEN Str(<<"I will look.">>) ELSE None, FALSE, b) : b \in Batches }
    \cup { Response(Str(<<"Here it is.">>), FALSE, <<>>),
           Response(None, TRUE, <<>>) }

Suspended == {"y_call", "y_result", "y_answer", "y_error"}
AtRest    == {"idle", "done", "crashed", "abandoned"}

\* main.py:82-86: chat(user_input), run to the first inference call
Chat ==
    /\ pc \in AtRest
    /\ chats < MaxChats
    /\ \E user_input \in UserInputs :
          memory' = add_message(memory, "user", user_input, None)
    /\ pc' = "await"
    /\ retries' = 0 /\ attempts' = <<>>
    /\ batch' = <<>> /\ idx' = 0 /\ result' = <<>>
    /\ events' = <<>>
    /\ trace' = <<Did("add_user", 0, <<>>)>>
    /\ chats' = chats + 1
    /\ UNCHANGED <<hvars, bvars, rounds, fsvars, ovars, tvars, cvars>>

\* a failure that takes the User message back when the call gives up
AttemptFailsRollingBack ==
    /\ pc = "await"
    /\ retries' = retries + 1
    /\ IF Exhausted(retries + 1)
       THEN /\ pc' = "y_error"
            /\ attempts' = Append(attempts, Did("fails", retries + 1, <<>>))
            /\ events' = Append(events, AgentEvent("error", Str(<<"Critical API Failure:", "503">>),
                                                   "", None, NoArgs))
            /\ trace' = trace \o <<Did("call_raises", 0, <<>>), Did("yield_error", 0, <<>>)>>
            /\ memory' = [memory EXCEPT !.messages = SubSeq(@, 1, Len(@) - 1)]
       ELSE /\ pc' = "await"
            /\ attempts' = attempts \o <<Did("fails", retries + 1, <<>>),
                                         Did("sleep", Delay(retries + 1), <<>>)>>
            /\ UNCHANGED <<events, trace, memory>>
    /\ UNCHANGED <<hvars, bvars, batch, idx, result, rounds, chats, fsvars, ovars, tvars, cvars>>

\* main.py:67-80, 88-93: one attempt of the inference call fails
AttemptFails ==
    /\ pc = "await"
    /\ retries' = retries + 1
    /\ IF Exhausted(retries + 1)
       THEN /\ pc' = "y_error"
            /\ attempts' = Append(attempts, Did("fails", retries + 1, <<>>))
            /\ events' = Append(events, AgentEvent("error", Str(<<"Critical API Failure:", "503">>),
                                                   "", None, NoArgs))
            /\ trace' = trace \o <<Did("call_raises", 0, <<>>), Did("yield_error", 0, <<>>)>>
       ELSE /\ pc' = "await"
            /\ attempts' = attempts \o <<Did("fails", retries + 1, <<>>),
                                         Did("sleep", Delay(retries + 1), <<>>)>>
            /\ UNCHANGED <<events, trace>>
    /\ UNCHANGED <<hvars, bvars, memory, batch, idx, result, rounds, chats, fsvars, ovars, tvars, cvars>>

\* main.py:67-75, 95-118, 133-139: one attempt returns a response
AttemptReturns ==
    /\ pc = "await"
    /\ \E response \in Responses :
          IF HasToolCalls(response)
          THEN /\ rounds < MaxRounds
               /\ rounds' = rounds + 1
               /\ memory' = add_tool_calls(memory, MessageObject(response))
               /\ batch' = response.tool_calls.calls
               /\ NextRequest(1, response.tool_calls.calls, events,
                              trace \o <<Did("call_returns", 0, <<>>),
                                         Did("add_batch", Len(response.tool_calls.calls), <<>>)>>)
          ELSE /\ memory' = add_message(memory, "assistant", response.content, None)
               /\ events' = Append(events, AgentEvent("answer", response.content, "", None,
                                                      NoArgs))
               /\ trace' = trace \o <<Did("call_returns", 0, <<>>),
                                      Did("add_answer", 0, PyStr(response.content)),
                                      Did("yield_answer", 0, PyStr(response.content))>>
               /\ pc' = "y_answer"
               /\ UNCHANGED <<batch, idx, rounds>>
    /\ attempts' = Append(attempts, Did("returns", retries, <<>>))
    /\ UNCHANGED <<hvars, bvars, retries, result, chats, fsvars, ovars, tvars, cvars>>

\* main.py:120-129: the caller takes the next event after a tool_call event
ResumeAfterToolCall ==
    /\ pc = "y_call"
    /\ \E out \in {execute_tool_call(disk, batch[idx].name, LoadsArgs(batch[idx].arguments))} :
          /\ disk' = out.disk
          /\ result' = out.text
          /\ events' = Append(events, ToolResultEvent(batch[idx], out.text))
          /\ trace' = trace \o <<Did("dispatch", idx, out.text),
                                 Did("yield_result", idx, <<>>)>>
    /\ pc' = "y_result"
    /\ UNCHANGED <<hvars, bvars, memory, retries, attempts, batch, idx, rounds, chats, fsvars, ovars, last, ncalls,
                   cvars>>

\* main.py:131, then 101-118 or back to 88: the caller takes the next event
\* after a tool_result event
ResumeAfterToolResult ==
    /\ pc = "y_result"
    /\ memory' = add_message(memory, "tool", Str(result), batch[idx].id)
    /\ IF idx < Len(batch)
       THEN /\ NextRequest(idx + 1, batch, events, Append(trace, Did("add_result", idx, result)))
            /\ UNCHANGED <<retries, attempts>>
       ELSE /\ pc' = "await"
            /\ retries' = 0 /\ attempts' = <<>>
            /\ trace' = Append(trace, Did("add_result", idx, result))
            /\ UNCHANGED <<idx, events>>
    /\ UNCHANGED <<hvars, bvars, batch, result, rounds, chats, fsvars, ovars, tvars, cvars>>

\* main.py:93, 139: break; the generator is exhausted
ResumeAfterTerminal ==
    /\ pc \in {"y_answer", "y_error"}
    /\ pc' = "done"
    /\ UNCHANGED <<hvars, bvars, memory, retries, attempts, batch, idx, result, events, trace, rounds,
                   chats, fsvars, ovars, tvars, cvars>>

\* the caller drops the generator at a yield
Abandon ==
    /\ pc \in Suspended
    /\ pc' = "abandoned"
    /\ UNCHANGED <<hvars, bvars, memory, retries, attempts, batch, idx, result, events, trace, rounds,
                   chats, fsvars, ovars, tvars, cvars>>

\* main.py:141-142: clear_memory(), whenever the caller has control
ClearMemory ==
    /\ pc # "await"
    /\ memory' = clear(memory)
    /\ UNCHANGED <<hvars, bvars, pc, retries, attempts, batch, idx, result, events, trace, rounds, chats,
                   fsvars, ovars, tvars, cvars>>

-----------------------------------------------------------------------------
(* utils/schema_helper.py: the @tool decorator.                            *)
(*                                                                         *)
(* An annotation is [chain, values]: chain lists the type from the outside *)
(* in, so Optional[List[str]] is <<"Optional", "List", "str">>; "List" is  *)
(* typing.List[T] or list[T], "list" the bare class, "Literal" carries     *)
(* its literals in values.  The annotation <<"empty">> is                  *)
(* inspect.Parameter.empty.  A JSON schema is the sequence of its levels   *)
(* from the outside in: [type, enum], and each level after the first is    *)
(* the "items" of the level before it.                                     *)

MaxParams == 2      \* parameters of a generated signature

PyType(chain, values) == [chain |-> chain, values |-> values]

T(chain) == PyType(chain, <<>>)

\* schema_helper.py:24-33: type_map.get(py_type, "string")
type_map(py_type) ==
    CASE py_type = "int"      -> "integer"
      [] py_type = "str"      -> "string"
      [] py_type = "bool"     -> "boolean"
      [] py_type = "float"    -> "number"
      [] py_type = "dict"     -> "object"
      [] py_type = "list"     -> "array"
      [] py_type = "NoneType" -> "null"
      [] OTHER                -> "string"

SchemaLevel(type, enum) == [type |-> type, enum |-> enum]

\* schema_helper.py:5-33.  Optional[T] is Union[T, None]: its __origin__ is
\* typing.Union, neither Literal nor list, and it is no key of type_map
RECURSIVE py_type_to_json(_)
py_type_to_json(py_type) ==
    LET origin == Head(py_type.chain) IN
    IF origin = "Literal"
    THEN <<SchemaLevel("string", py_type.values)>>
    ELSE IF origin = "List"
    THEN LET item_type == IF Len(py_type.chain) > 1
                          THEN PyType(Tail(py_type.chain), py_type.values)
                          ELSE T(<<"str">>)
         IN  <<SchemaLevel("array", <<>>)>> \o py_type_to_json(item_type)
    ELSE <<SchemaLevel(type_map(origin), <<>>)>>

\* a parameter of a signature
Param(name, annotation, has_default) ==
    [name |-> name, annotation |-> annotation, has_default |-> has_default]

Func(name, params) == [name |-> name, params |-> params]

\* schema_helper.py:68-70
Annotation(param) ==
    IF param.annotation.chain = <<"empty">> THEN T(<<"str">>) ELSE param.annotation

\* schema_helper.py:48-95: func.schema["function"], without the descriptions
tool(func) ==
    LET kept == SelectSeq(func.params, LAMBDA q : q.name # "self")
        open == SelectSeq(kept, LAMBDA q : ~q.has_default)
    IN  [name       |-> func.name,
         properties |-> [i \in 1..Len(kept) |->
                           [name         |-> kept[i].name,
                            field_schema |-> py_type_to_json(Annotation(kept[i]))]],
         required   |-> [i \in 1..Len(open) |-> open[i].name]]

\* the signatures of the seven tools: tools/read.py:46, write.py:7,
\* edit.py:8, list.py:9, grep.py:10-16, glob.py:10, bash.py:9
ToolSignatures ==
    LET str     == T(<<"str">>)
        int     == T(<<"int">>)
        optstr  == T(<<"Optional", "str">>)
        optlist == T(<<"Optional", "List", "str">>)
    IN  { Func("read_file",  <<Param("file_path", str, FALSE), Param("offset", int, TRUE),
                               Param("limit", int, TRUE)>>),
          Func("write_file", <<Param("file_path", str, FALSE), Param("content", str, FALSE)>>),
          Func("edit_file",  <<Param("file_path", str, FALSE), Param("content", str, FALSE),
                               Param("workdir", optstr, TRUE)>>),
          Func("list_files", <<Param("path", str, TRUE), Param("ignore", optlist, TRUE)>>),
          Func("grep_tool",  <<Param("query", str, FALSE), Param("path", str, TRUE),
                               Param("include", optlist, TRUE), Param("exclude", optlist, TRUE),
                               Param("case_sensitive", T(<<"bool">>), TRUE)>>),
          Func("glob_tool",  <<Param("pattern", str, FALSE), Param("exclude", optstr, TRUE)>>),
          Func("bash_tool",  <<Param("command", str, FALSE), Param("workdir", optstr, TRUE),
                               Param("timeout", int, TRUE)>>) }

\* annotations a signature may carry
Annotations ==
    { T(<<c>>) : c \in {"int", "str", "bool", "float", "dict", "list", "NoneType", "bytes",
                        "empty"} }
    \cup { T(<<"List", "int">>), T(<<"List", "str">>), T(<<"List", "List", "str">>),
           T(<<"Optional", "int">>), T(<<"Optional", "str">>), T(<<"Optional", "bool">>),
           T(<<"Optional", "List", "str">>),
           PyType(<<"Literal">>, <<"r", "w">>), PyType(<<"Optional", "Literal">>, <<"r", "w">>) }

ParamNames == <<"a", "b", "c", "d">>

\* a function of n parameters with these annotations and defaults
Signature(n, an, df) == Func("f", [i \in 1..n |-> Param(ParamNames[i], an[i], df[i])])

\* a method: a parameter after `self`
Method(a, d) == Func("m", <<Param("self", T(<<"empty">>), FALSE), Param("a", a, d)>>)

NoSchema == [name |-> "", properties |-> <<>>, required |-> <<>>]

NotDecorated == [func |-> Func("", <<>>), schema |-> NoSchema, done |-> FALSE]

\* schema_helper.py:48-95: @tool is applied to a function
Decorate ==
    /\ ~decorated.done
    /\ decorated' = [decorated EXCEPT !.schema = tool(decorated.func), !.done = TRUE]
    /\ UNCHANGED <<bvars, fsvars, tvars, cvars, avars, ovars>>

-----------------------------------------------------------------------------
(* Specifications.  Each one drives one part of the program and leaves the *)
(* variables of the other parts at rest.                                   *)

CtxAtRest == ContextManager(Message("system", Str(<<>>)), 0, 0)

InitSpecResolve ==
    /\ rp_in \in RawPaths
    /\ rp_out = NotCalled
    /\ disk = Disk0 /\ last = NoCall /\ ncalls = 0
    /\ ctx = CtxAtRest /\ snap = NoSnap
    /\ memory = NewMemory /\ pc = "idle" /\ retries = 0 /\ attempts = <<>>
    /\ batch = <<>> /\ idx = 0
    /\ result = <<>> /\ events = <<>> /\ trace = <<>> /\ rounds = 0 /\ chats = 0
    /\ dispatched = NoDispatch
    /\ units = ToolsDir0 /\ sys_modules = NoModules /\ cache = TOOL_CACHE
    /\ threads = [t \in Threads |-> Idle] /\ scans = 0
    /\ tools = NoAgent /\ sent = NotSent
    /\ procs = {} /\ sub = NoRun
    /\ decorated = NotDecorated

NextResolve == CallResolve

SpecResolve == InitSpecResolve /\ [][NextResolve]_vars

InitSpecTools ==
    /\ rp_in = NonStrPath
    /\ rp_out = NotCalled
    /\ disk = Disk0 /\ last = NoCall /\ ncalls = 0
    /\ ctx = CtxAtRest /\ snap = NoSnap
    /\ memory = NewMemory /\ pc = "idle" /\ retries = 0 /\ attempts = <<>>
    /\ batch = <<>> /\ idx = 0
    /\ result = <<>> /\ events = <<>> /\ trace = <<>> /\ rounds = 0 /\ chats = 0
    /\ dispatched = NoDispatch
    /\ units = ToolsDir0 /\ sys_modules = NoModules /\ cache = TOOL_CACHE
    /\ threads = [t \in Threads |-> Idle] /\ scans = 0
    /\ tools = NoAgent /\ sent = NotSent
    /\ procs = {} /\ sub = NoRun
    /\ decorated = NotDecorated

NextTools ==
    \/ CallReadFile
    \/ CallWriteFile
    \/ CallEditFile
    \/ CallListFiles
    \/ CallGrepTool
    \/ CallGlobTool
    \/ CallBashTool

SpecTools == InitSpecTools /\ [][NextTools]_vars

InitSpecDispatch ==
    /\ rp_in = NonStrPath
    /\ rp_out = NotCalled
    /\ disk = Disk0 /\ last = NoCall /\ ncalls = 0
    /\ ctx = CtxAtRest /\ snap = NoSnap
    /\ memory = NewMemory /\ pc = "idle" /\ retries = 0 /\ attempts = <<>>
    /\ batch = <<>> /\ idx = 0
    /\ result = <<>> /\ events = <<>> /\ trace = <<>> /\ rounds = 0 /\ chats = 0
    /\ dispatched = NoDispatch
    /\ units = ToolsDir0 /\ sys_modules = NoModules /\ cache = TOOL_CACHE
    /\ threads = [t \in Threads |-> Idle] /\ scans = 0
    /\ tools = NoAgent /\ sent = NotSent
    /\ procs = {} /\ sub = NoRun
    /\ decorated = NotDecorated

NextDispatch == CallDispatch

SpecDispatch == InitSpecDispatch /\ [][NextDispatch]_vars

InitSpecBash ==
    /\ rp_in = NonStrPath
    /\ rp_out = NotCalled
    /\ disk = Disk0 /\ last = NoCall /\ ncalls = 0
    /\ ctx = CtxAtRest /\ snap = NoSnap
    /\ memory = NewMemory /\ pc = "idle" /\ retries = 0 /\ attempts = <<>>
    /\ batch = <<>> /\ idx = 0
    /\ result = <<>> /\ events = <<>> /\ trace = <<>> /\ rounds = 0 /\ chats = 0
    /\ dispatched = NoDispatch
    /\ units = ToolsDir0 /\ sys_modules = NoModules /\ cache = TOOL_CACHE
    /\ threads = [t \in Threads |-> Idle] /\ scans = 0
    /\ tools = NoAgent /\ sent = NotSent
    /\ procs = {} /\ sub = NoRun
    /\ decorated = NotDecorated

NextBash ==
    \/ BashCall
    \/ ShellStep
    \/ ProcessExits
    \/ Tick
    \/ Completed
    \/ TimeoutExpired

SpecBash == InitSpecBash /\ [][NextBash]_vars

InitSpecSchema ==
    /\ rp_in = NonStrPath
    /\ rp_out = NotCalled
    /\ disk = Disk0 /\ last = NoCall /\ ncalls = 0
    /\ ctx = CtxAtRest /\ snap = NoSnap
    /\ memory = NewMemory /\ pc = "idle" /\ retries = 0 /\ attempts = <<>>
    /\ batch = <<>> /\ idx = 0
    /\ result = <<>> /\ events = <<>> /\ trace = <<>> /\ rounds = 0 /\ chats = 0
    /\ dispatched = NoDispatch
    /\ units = ToolsDir0 /\ sys_modules = NoModules /\ cache = TOOL_CACHE
    /\ threads = [t \in Threads |-> Idle] /\ scans = 0
    /\ tools = NoAgent /\ sent = NotSent
    /\ procs = {} /\ sub = NoRun
    /\ \/ \E func \in ToolSignatures :
             decorated = [NotDecorated EXCEPT !.func = func]
       \/ \E n \in 1..MaxParams :
             \E an \in [1..n -> Annotations], df \in [1..n -> BOOLEAN] :
                decorated = [NotDecorated EXCEPT !.func = Signature(n, an, df)]
       \/ \E a \in Annotations, d \in BOOLEAN :
             decorated = [NotDecorated EXCEPT !.func = Method(a, d)]

NextSchema == Decorate

SpecSchema == InitSpecSchema /\ [][NextSchema]_vars

InitSpecRegistry ==
    /\ rp_in = NonStrPath
    /\ rp_out = NotCalled
    /\ disk = Disk0 /\ last = NoCall /\ ncalls = 0
    /\ ctx = CtxAtRest /\ snap = NoSnap
    /\ memory = NewMemory /\ pc = "idle" /\ retries = 0 /\ attempts = <<>>
    /\ batch = <<>> /\ idx = 0
    /\ result = <<>> /\ events = <<>> /\ trace = <<>> /\ rounds = 0 /\ chats = 0
    /\ dispatched = NoDispatch
    /\ units = ToolsDir0 /\ sys_modules = NoModules /\ cache = TOOL_CACHE
    /\ threads = [t \in Threads |-> Idle] /\ scans = 0
    /\ tools = NoAgent /\ sent = NotSent
    /\ procs = {} /\ sub = NoRun
    /\ decorated = NotDecorated

NextRegistry ==
    \/ \E t \in Threads : Enter(t)
    \/ \E t \in Threads : StoreMap(t)
    \/ \E t \in Threads : StoreSchemas(t)
    \/ \E t \in Threads : StoreLoaded(t)
    \/ \E t \in Threads : Return(t)
    \/ CallLLM
    \/ ChangeTools

SpecRegistry == InitSpecRegistry /\ [][NextRegistry]_vars

InitSpecCtx ==
    /\ rp_in = NonStrPath
    /\ rp_out = NotCalled
    /\ disk = Disk0 /\ last = NoCall /\ ncalls = 0
    /\ \E sp \in SystemPrompts, ml \in ModelLimits :
          ctx = ContextManager(sp, ml, 1)
    /\ snap = NoSnap
    /\ memory = NewMemory /\ pc = "idle" /\ retries = 0 /\ attempts = <<>>
    /\ batch = <<>> /\ idx = 0
    /\ result = <<>> /\ events = <<>> /\ trace = <<>> /\ rounds = 0 /\ chats = 0
    /\ dispatched = NoDispatch
    /\ units = ToolsDir0 /\ sys_modules = NoModules /\ cache = TOOL_CACHE
    /\ threads = [t \in Threads |-> Idle] /\ scans = 0
    /\ tools = NoAgent /\ sent = NotSent
    /\ procs = {} /\ sub = NoRun
    /\ decorated = NotDecorated

NextCtx ==
    \/ CtxAddMessage
    \/ CtxAddToolCalls
    \/ CtxClear
    \/ CtxGetMessages

SpecCtx == InitSpecCtx /\ [][NextCtx]_vars

Init ==
    /\ rp_in = NonStrPath
    /\ rp_out = NotCalled
    /\ disk = Disk0 /\ last = NoCall /\ ncalls = 0
    /\ ctx = CtxAtRest /\ snap = NoSnap
    /\ memory = NewMemory /\ pc = "idle" /\ retries = 0 /\ attempts = <<>>
    /\ batch = <<>> /\ idx = 0
    /\ result = <<>> /\ events = <<>> /\ trace = <<>> /\ rounds = 0 /\ chats = 0
    /\ dispatched = NoDispatch
    /\ units = ToolsDir0 /\ sys_modules = NoModules /\ cache = TOOL_CACHE
    /\ threads = [t \in Threads |-> Idle] /\ scans = 0
    /\ tools = NoAgent /\ sent = NotSent
    /\ procs = {} /\ sub = NoRun
    /\ decorated = NotDecorated

Next ==
    \/ Chat
    \/ AttemptFails
    \/ AttemptReturns
    \/ ResumeAfterToolCall
    \/ ResumeAfterToolResult
    \/ ResumeAfterTerminal
    \/ Abandon
    \/ ClearMemory

Spec == Init /\ [][Next]_vars

-----------------------------------------------------------------------------
(* Claims about the gateway (SpecResolve).                                 *)

\* the canonical form of root/p
Canonical(p) == Resolve(Join(PROJECT_ROOT, p))

\* t is the root or below it: the names of the root are the first names of t
IsUnderRoot(t) ==
    /\ Len(t) >= Len(PROJECT_ROOT)
    /\ \A i \in 1..Len(PROJECT_ROOT) : t[i] = PROJECT_ROOT[i]

\* some name of t below the root is blocked or hidden
HasRefusedName(t) ==
    \E i \in (Len(PROJECT_ROOT) + 1)..Len(t) :
        t[i] \in (BLOCKED_FILES \cup BLOCKED_DIRS) \/ t[i][1] = "."

P_traversal  == RawPath(FALSE, <<N_dotdot, N_dotdot, N_etc, N_x>>)
P_traversal3 == RawPath(FALSE, <<N_dotdot, N_dotdot, N_etc>>)
P_env        == RawPath(FALSE, <<N_env>>)
P_gitconfig  == RawPath(FALSE, <<N_src, N_git, N_x>>)
P_hidden     == RawPath(FALSE, <<N_hidden, N_x>>)
P_sibling    == RawPath(FALSE, <<N_dotdot, N_proj2>>)
P_absolute   == RawPath(TRUE, <<N_etc, N_x>>)

\* C6: resolve fails whenever the canonical path is neither the root nor below
\* it (a sibling whose name starts with the root's name and an absolute path
\* outside the root included), or a name of the canonical path below the root
\* is blocked or starts with "."; and the four example paths fail.
C6_ResolveRejects ==
    rp_out.called =>
        /\ (rp_in.kind = "str" /\ (~IsUnderRoot(Canonical(rp_in)) \/ HasRefusedName(Canonical(rp_in))))
              => ~rp_out.res.ok
        /\ rp_in \in {P_traversal, P_traversal3, P_env, P_gitconfig, P_hidden,
                      P_sibling, P_absolute}
              => ~rp_out.res.ok

\* resolve was called on a path with a blocked directory name below a plain
\* directory, and refused it
C6_Witness ==
    /\ rp_out.called /\ ~rp_out.res.ok
    /\ rp_in = P_gitconfig

\* C7: for a path whose canonical form is the root or below it and has no
\* blocked or hidden name, resolve succeeds and returns the root or a path
\* below the root; the empty path and the root itself give the root.
C7_ResolveAccepts ==
    rp_out.called =>
        /\ (rp_in.kind = "str" /\ IsUnderRoot(Canonical(rp_in)) /\ ~HasRefusedName(Canonical(rp_in)))
              => /\ rp_out.res.ok
                 /\ IsUnderRoot(rp_out.res.path)
                 /\ rp_out.res.path = Canonical(rp_in)
        /\ rp_in \in {RawPath(FALSE, <<>>), RawPath(TRUE, PROJECT_ROOT)}
              => rp_out.res.ok /\ rp_out.res.path = PROJECT_ROOT

\* resolve accepted a path that went through the hidden link to a plain directory
C7_Witness ==
    /\ rp_out.called /\ rp_out.res.ok
    /\ rp_in = RawPath(FALSE, <<N_dl, N_x>>)
    /\ rp_out.res.path = <<N_proj, N_src, N_x>>

-----------------------------------------------------------------------------
(* Claims about the tools (SpecTools).                                     *)

\* C8: when the gateway refuses the path argument of a filesystem tool, the
\* call leaves the disk as it was, reads and returns no file or entry, runs no
\* command, raises nothing and returns a text that contains "Security".
C8_RejectedPathTouchesNothing ==
    (/\ last.tool \in {"read_file", "write_file", "edit_file", "list_files",
                       "grep_tool", "bash_tool"}
     /\ last.gated
     /\ ~resolve_path(last.gate).ok)
    => /\ ~last.changed
       /\ last.accessed = {}
       /\ ~last.ran
       /\ last.raised = ""
       /\ Contains(last.text, "Security")

\* edit_file was called with a file under a workdir that leaves the sandbox
C8_Witness ==
    /\ last.tool = "edit_file"
    /\ last.gate = RawPath(FALSE, <<N_dotdot, N_x>>)
    /\ Contains(last.text, "Security")
    /\ disk = Disk0

\* C9 as stated: every path a tool call read, wrote or returned is one that
\* resolve accepts.
C9_EveryAccessPassesSandbox ==
    \A p \in last.accessed : resolve_path(RawPath(TRUE, p)).ok

-----------------------------------------------------------------------------
(* Claims about the ContextManager (SpecCtx).                              *)

RECURSIVE SumTokens(_)
SumTokens(msgs) ==
    IF msgs = <<>> THEN 0
    ELSE (StrLen(PyStr(Head(msgs).content)) \div 4) + SumTokens(Tail(msgs))

\* C10: when the budget is at least the estimate of the System message, the
\* snapshot starts with the System message and the estimates of its messages,
\* the System message included, add up to no more than the budget.
C10_SnapshotWithinBudget ==
    (/\ snap.called
     /\ ctx.safe_token_limit >= StrLen(PyStr(ctx.system_prompt.content)) \div 4)
    => /\ Len(snap.msgs) >= 1
       /\ snap.msgs[1] = ctx.system_prompt
       /\ SumTokens(snap.msgs) <= ctx.safe_token_limit

\* a snapshot that had to drop a message: the budget holds the System message
\* and the newest message, not the one before
C10_Witness ==
    /\ snap.called
    /\ ctx.safe_token_limit >= StrLen(PyStr(ctx.system_prompt.content)) \div 4
    /\ Len(ctx.messages) = 3
    /\ Len(snap.msgs) = 2
    /\ SumTokens(snap.msgs) = ctx.safe_token_limit
    /\ SumTokens(snap.msgs) > 0


\* the estimated cost of the System message of c
SystemCost(c) == StrLen(PyStr(c.system_prompt.content)) \div 4

\* the newest k messages of the transcript of c, oldest first
Newest(c, k) == SubSeq(c.messages, Len(c.messages) - k + 1, Len(c.messages))

\* the lengths k >= 1 for which the System message and the newest k messages
\* cost no more than the budget
FittingLengths(c) ==
    { k \in 1..(Len(c.messages) - 1) :
        SystemCost(c) + SumTokens(Newest(c, k)) <= c.safe_token_limit }

\* the greatest of them, 0 if there is none
LongestFit(c) ==
    IF FittingLengths(c) = {} THEN 0
    ELSE CHOOSE k \in FittingLengths(c) : \A k2 \in FittingLengths(c) : k2 <= k

\* C11: a snapshot is the System message followed by the newest k messages of
\* the transcript in transcript order, k being the greatest number whose
\* messages, with the System message, cost no more than the budget; nothing
\* older is in the snapshot, even a message that would fit by itself.
C11_SnapshotIsLongestFittingSuffix ==
    snap.called =>
        snap.msgs = <<ctx.system_prompt>> \o Newest(ctx, LongestFit(ctx))

\* the snapshot holds the newest message only; the one before it does not fit,
\* the oldest one would fit and is left out
C11_Witness ==
    /\ snap.called
    /\ Len(ctx.messages) = 4
    /\ Len(snap.msgs) = 2
    /\ snap.msgs[2] = ctx.messages[4]
    /\ SystemCost(ctx) + SumTokens(<<ctx.messages[4], ctx.messages[3]>>) > ctx.safe_token_limit
    /\ SystemCost(ctx) + SumTokens(<<ctx.messages[4], ctx.messages[2]>>) <= ctx.safe_token_limit

\* C12: the transcript always starts with the System message, and every
\* snapshot starts with the System message; when the System message alone
\* costs more than the budget the snapshot is the System message alone.
C12_SystemMessageAlwaysFirst ==
    /\ Len(ctx.messages) >= 1
    /\ ctx.messages[1] = ctx.system_prompt
    /\ Len(memory.messages) >= 1
    /\ memory.messages[1] = memory.system_prompt
    /\ snap.called =>
          /\ Len(snap.msgs) >= 1
          /\ snap.msgs[1] = ctx.system_prompt
          /\ (SystemCost(ctx) > ctx.safe_token_limit) => (snap.msgs = <<ctx.system_prompt>>)

\* a snapshot of a transcript of three messages under a budget smaller than
\* the cost of the System message
C12_Witness ==
    /\ snap.called
    /\ SystemCost(ctx) > ctx.safe_token_limit
    /\ Len(ctx.messages) = 3
    /\ snap.msgs = <<ctx.system_prompt>>

\* s is a prefix of t
IsPrefix(s, t) == Len(s) <= Len(t) /\ SubSeq(t, 1, Len(s)) = s

\* C13: get_messages leaves the transcript as it is, add_message and
\* add_tool_calls leave the previous transcript as a prefix of the new one
\* with one message more, and so does every step of chat; only clear removes
\* messages.
C13_TranscriptAppendOnly ==
    [][/\ CtxGetMessages => ctx' = ctx
       /\ ~CtxClear => IsPrefix(ctx.messages, ctx'.messages)
       /\ ~ClearMemory => IsPrefix(memory.messages, memory'.messages)
       /\ (CtxAddMessage \/ CtxAddToolCalls) =>
              /\ Len(ctx'.messages) = Len(ctx.messages) + 1
              /\ IsPrefix(ctx.messages, ctx'.messages)]_vars

\* a snapshot left messages out and the transcript still holds them
C13_Witness ==
    /\ snap.called
    /\ Len(ctx.messages) = 4
    /\ Len(snap.msgs) = 2
    /\ ctx.messages[2] # snap.msgs[2]

-----------------------------------------------------------------------------
(* Claims about execute_tool_call (SpecDispatch).                          *)

\* message m is a batch message that asks for a tool call with the id
Requests(m, id) == \E r \in 1..Len(m.tool_calls) : m.tool_calls[r].id = id

\* the place in the transcript of entry k of the snapshot (k > 1): the
\* snapshot is the System message and the newest messages
PlaceInTranscript(k) == Len(ctx.messages) - Len(snap.msgs) + k

\* C29: a tool message of the snapshot whose request is in the transcript
\* before it has the batch message with that request before it in the
\* snapshot, and the snapshot holds the newest User message of the
\* transcript when there is one.
C29_SnapshotKeepsResultWithRequest ==
    snap.called =>
        /\ \A k \in 2..Len(snap.msgs) :
              (/\ snap.msgs[k].role = "tool"
               /\ snap.msgs[k].has_id
               /\ \E b \in 1..(PlaceInTranscript(k) - 1) :
                     Requests(ctx.messages[b], snap.msgs[k].tool_call_id))
              => \E j \in 1..(k - 1) : Requests(snap.msgs[j], snap.msgs[k].tool_call_id)
        /\ \A u \in 1..Len(ctx.messages) :
              (/\ ctx.messages[u].role = "user"
               /\ \A v \in (u + 1)..Len(ctx.messages) : ctx.messages[v].role # "user")
              => /\ u > Len(ctx.messages) - Len(snap.msgs) + 1
                 /\ snap.msgs[u - (Len(ctx.messages) - Len(snap.msgs))] = ctx.messages[u]

\* C15: execute_tool_call raises nothing and returns a text for every
\* registered tool and every argument value: arguments that do not bind to
\* the signature (missing, extra or wrongly named keys, a list, None) give
\* an error text and the tool body does not run, and an exception of the
\* tool body gives an error text that names the exception.
C15_DispatchNeverRaises ==
    dispatched.called =>
        /\ dispatched.raised = ""
        /\ dispatched.text # <<>>
        /\ (dispatched.name \in tool_map /\ ~Binds(dispatched.name, dispatched.args)) =>
              /\ dispatched.text[1] = "Error executing"
              /\ Contains(dispatched.text, "Invalid arguments provided")
              /\ ~dispatched.invoked
              /\ ~dispatched.changed
        /\ dispatched.inner # "" =>
              /\ dispatched.text[1] \in {"Error executing", "Error inside tool"}
              /\ Contains(dispatched.text, dispatched.inner)

\* grep_tool was dispatched with a pattern that makes re.compile raise
\* OverflowError, and the text of the error came back
C15_Witness ==
    /\ dispatched.called
    /\ dispatched.name = "grep_tool"
    /\ dispatched.inner = "OverflowError"
    /\ dispatched.text[1] = "Error inside tool"

\* C31: for a registered tool the text says 'Invalid arguments provided'
\* exactly when the arguments do not bind to the signature of the tool (a
\* key missing, a key that is no parameter, no mapping), and then the body
\* has not run; every exception the body raises, of whatever type, gives
\* the text 'Error inside tool'.
C31_FailuresClassifiedByCause ==
    (dispatched.called /\ dispatched.name \in tool_map) =>
        /\ Contains(dispatched.text, "Invalid arguments provided")
              <=> ~Binds(dispatched.name, dispatched.args)
        /\ Contains(dispatched.text, "Invalid arguments provided") => ~dispatched.invoked
        /\ dispatched.inner # "" =>
              /\ dispatched.text[1] = "Error inside tool"
              /\ Contains(dispatched.text, dispatched.inner)

\* C16: execute_tool_call with a name that is not in the registry returns a
\* text that contains "not found", raises nothing, runs no tool and leaves
\* the disk as it is, whatever the arguments are.
C16_UnknownToolNotFound ==
    (dispatched.called /\ dispatched.name \notin tool_map) =>
        /\ Contains(dispatched.text, "not found")
        /\ dispatched.raised = ""
        /\ ~dispatched.invoked
        /\ ~dispatched.changed

\* an unknown name was dispatched with arguments that would bind to any
\* function without parameters
C16_Witness ==
    /\ dispatched.called
    /\ dispatched.name = "nonexistent_tool"
    /\ dispatched.args = EmptyArgs
    /\ Contains(dispatched.text, "not found")

-----------------------------------------------------------------------------
(* Claims about the tool registry (SpecRegistry).                          *)

\* the names of the functions of a map object
MapNames(obj) == { f.name : f \in obj.funcs }

\* thread t starts a call in this step
Starts(t) == threads[t].pc = "idle" /\ threads'[t].pc # "idle"

\* C17: once the registry is loaded, a call of get_all_tool_schemas,
\* get_tool_map or Agent() without refresh scans nothing, imports nothing and
\* leaves the cache as it is, and what it reads is the cache; a change of
\* the tools directory leaves the cache as it is; a call with refresh scans.
C17_CachedUnlessRefresh ==
    [][\A t \in Threads :
          /\ (Starts(t) /\ cache.is_loaded /\ ~threads'[t].force) =>
                /\ threads'[t].pc = "return"
                /\ scans' = scans
                /\ sys_modules' = sys_modules
                /\ cache' = cache
          /\ (Starts(t) /\ threads'[t].force) =>
                /\ scans' = scans + 1
                /\ threads'[t].pc = "store_map"
          /\ (threads[t].pc = "return" /\ threads'[t].pc = "idle") =>
                /\ cache' = cache
                /\ threads[t].op = "Agent" => tools'.schemas = cache.schemas
          /\ units' # units => cache' = cache]_vars

\* the tools directory has changed since the only scan, and a call without
\* refresh is about to return the map of that scan, write_file included
C17_Witness ==
    /\ cache.is_loaded
    /\ scans = 1
    /\ units = ToolsDir1
    /\ threads[1].pc = "return"
    /\ threads[1].op = "get_tool_map"
    /\ threads[1].scan = 0
    /\ threads[2].pc = "idle"
    /\ MapNames(cache.map) = {"read_file", "write_file"}

\* C18: whenever a call is about to read the cache, the map and the schema
\* list of the cache were built by the same scan.
C18_RefreshIsAtomic ==
    \A t \in Threads :
        threads[t].pc = "return" => cache.map.scan = cache.schemas.scan

\* C19: an inference call made while no registry call is under way sends
\* the schema list the registry holds at that moment.
C19_InferenceCarriesCurrentSchemas ==
    [][(CallLLM /\ \A t \in Threads : threads[t].pc = "idle") =>
          sent'.schemas.list = cache.schemas.list]_vars

\* the names of the schemas of a list object, as a sequence
SchemaNames(obj) == [i \in 1..Len(obj.list) |-> obj.list[i].name]

\* C23: when the map and the schema list of the cache come from one
\* finished scan, no two schemas of the list share a name and the names of
\* the list are the keys of the map.
C23_RegistryNamesUnique ==
    (cache.is_loaded /\ cache.map.scan = cache.schemas.scan) =>
        /\ \A i, j \in 1..Len(cache.schemas.list) :
              SchemaNames(cache.schemas)[i] = SchemaNames(cache.schemas)[j] => i = j
        /\ { SchemaNames(cache.schemas)[i] : i \in 1..Len(cache.schemas.list) }
              = MapNames(cache.map)

\* the members a scan gets from the file f: those of the module in
\* sys.modules when the scan is not forced and the module is there, else
\* those of the file when it loads, else none
MembersSeen(mods, f, force_reload) ==
    IF f.name \in DOMAIN mods /\ ~force_reload THEN mods[f.name]
    ELSE IF f.loads THEN f.members
    ELSE <<>>

\* the tools a scan of dir has to register
ExpectedTools(mods, dir, force_reload) ==
    { obj \in UNION { { MembersSeen(mods, dir[i], force_reload)[k] :
                          k \in 1..Len(MembersSeen(mods, dir[i], force_reload)) } :
                      i \in { j \in 1..Len(dir) : dir[j].py /\ ~dir[j].dunder } } :
        obj.schema = "named" }

\* C24: every scan goes to its end whatever files fail to load: what it has
\* collected is exactly the tools of the files that load, by name in the map
\* and by schema in the list, nothing of a file that fails; its three stores
\* follow and the last one marks the registry loaded.
C24_ScanToleratesLoadFailures ==
    [][\A t \in Threads :
          /\ (Starts(t) /\ threads'[t].pc # "return") =>
                /\ threads'[t].pc = "store_map"
                /\ { obj.name : obj \in threads'[t].temp_map }
                      = { obj.name : obj \in ExpectedTools(sys_modules, units, threads'[t].force) }
                /\ threads'[t].temp_map
                      \subseteq ExpectedTools(sys_modules, units, threads'[t].force)
                /\ { threads'[t].temp_schemas[k] : k \in 1..Len(threads'[t].temp_schemas) }
                      = { SchemaOf(obj) :
                            obj \in ExpectedTools(sys_modules, units, threads'[t].force) }
          /\ (threads[t].pc = "store_map" /\ threads'[t] # threads[t]) =>
                /\ cache'.map.funcs = threads[t].temp_map
                /\ threads'[t].pc = "store_schemas"
          /\ (threads[t].pc = "store_schemas" /\ threads'[t] # threads[t]) =>
                /\ cache'.schemas.list = threads[t].temp_schemas
                /\ threads'[t].pc = "store_loaded"
          /\ (threads[t].pc = "store_loaded" /\ threads'[t] # threads[t]) =>
                /\ cache'.is_loaded
                /\ threads'[t].pc = "return"]_vars

\* a refresh has scanned the directory that holds a file that fails to load
\* and a file that read.py replaced: the registry is loaded with the tools
\* of edit and read, and nothing of write, which is gone
C24_Witness ==
    /\ units = ToolsDir1
    /\ cache.is_loaded
    /\ cache.map.scan = 2
    /\ cache.schemas.scan = 2
    /\ MapNames(cache.map) = {"edit_file", "read_file"}
    /\ "read" \in DOMAIN sys_modules
    /\ "broken" \notin DOMAIN sys_modules

\* C25: when bash_tool has returned with the error 'Command timed out', no
\* process the command started is still running: neither the shell nor a
\* child the shell forked.
C25_TimeoutKillsWhatItStarted ==
    (sub.pc = "returned" /\ sub.result.error = "Command timed out") =>
        ~\E p \in procs : p.call = sub.call

\* what the schema of a parameter with this annotation has to say: the
\* semantic type of a declared type, that of T for Optional[T], "" for an
\* annotation of which nothing is said
RECURSIVE SemanticType(_)
SemanticType(chain) ==
    CASE chain[1] = "Optional"         -> SemanticType(Tail(chain))
      [] chain[1] = "Literal"          -> "enumeration"
      [] chain[1] \in {"List", "list"} -> "array"
      [] chain[1] = "int"              -> "integer"
      [] chain[1] = "str"              -> "string"
      [] chain[1] = "bool"             -> "boolean"
      [] chain[1] = "float"            -> "number"
      [] chain[1] = "dict"             -> "object"
      [] OTHER                         -> ""

\* what a derived schema says
SaysType(field_schema) ==
    IF field_schema[1].enum # <<>> THEN "enumeration" ELSE field_schema[1].type

\* C32: in the schema @tool derives, every parameter has the semantic type
\* of its declared type (integer, string, boolean, number, object, array,
\* enumeration), an Optional[T] parameter that of T, and the required list
\* names exactly the parameters without default.
C32_SchemaReflectsTypeAndDefault ==
    decorated.done =>
        LET kept == SelectSeq(decorated.func.params, LAMBDA q : q.name # "self") IN
        /\ Len(decorated.schema.properties) = Len(kept)
        /\ \A i \in 1..Len(kept) :
              /\ decorated.schema.properties[i].name = kept[i].name
              /\ SemanticType(kept[i].annotation.chain) # "" =>
                    SaysType(decorated.schema.properties[i].field_schema)
                       = SemanticType(kept[i].annotation.chain)
              /\ kept[i].has_default <=>
                    ~\E r \in 1..Len(decorated.schema.required) :
                          decorated.schema.required[r] = kept[i].name
        /\ \A r \in 1..Len(decorated.schema.required) :
              \E i \in 1..Len(kept) : kept[i].name = decorated.schema.required[r]

-----------------------------------------------------------------------------
(* Claims about Agent.chat (Spec).                                         *)

\* the run has ended: the generator is exhausted or an exception left it
RunEnded == pc \in {"done", "crashed"}

IsTerminalEvent(e) == e.type \in {"answer", "error"}

\* (tool_call, tool_result)* then one answer or error
WellFormedStream(ev) ==
    /\ Len(ev) >= 1
    /\ Len(ev) % 2 = 1
    /\ IsTerminalEvent(ev[Len(ev)])
    /\ \A k \in 1..(Len(ev) - 1) :
          ev[k].type = (IF k % 2 = 1 THEN "tool_call" ELSE "tool_result")

\* C1 as stated: the events of a run that has ended are pairs of tool_call and
\* tool_result events followed by exactly one answer or error event.
C1_EventStreamForm == RunEnded => WellFormedStream(events)

\* the attempts of the current inference call that failed
FailedAttempts == { k \in 1..Len(attempts) : attempts[k].op = "fails" }

\* the initial attempt and every retry of the current inference call failed
AllAttemptsFailed == Cardinality(FailedAttempts) = MAX_RETRIES + 1

\* C2: when every attempt of an inference call has failed, the run yields one
\* error event as its last event, does nothing after it (no dispatch, no
\* further event) and is over or ends at the next resumption.
C2_ExhaustedRetriesGiveOneFatalError ==
    AllAttemptsFailed =>
        /\ pc \in {"y_error", "done", "abandoned"}
        /\ Len(events) >= 1
        /\ events[Len(events)].type = "error"
        /\ Cardinality({ k \in 1..Len(events) : events[k].type = "error" }) = 1
        /\ Len(trace) >= 2
        /\ trace[Len(trace)].op = "yield_error"
        /\ trace[Len(trace) - 1].op = "call_raises"
        /\ ~(\E k \in 1..Len(attempts) : attempts[k].op = "returns")

\* the inference call after a tool round failed on all four attempts and the
\* run has ended
C2_Witness ==
    /\ pc = "done"
    /\ AllAttemptsFailed
    /\ Len(events) = 5
    /\ events[5].type = "error"

\* the length of the batch that entry k of the log belongs to
BatchLenAt(k) ==
    LET js == { j \in 1..k : trace[j].op = "add_batch" }
    IN  IF js = {} THEN 0
        ELSE trace[CHOOSE j \in js : \A j2 \in js : j2 <= j].i

\* C3: the requests of a batch are processed one after the other in the order
\* received: announce ri, dispatch ri, announce the result of ri with the text
\* the dispatch returned; r(i+1) is announced only after the result of ri, and
\* the inference service is called again only after the last request.
C3_BatchProcessedInOrder ==
    /\ \A k \in 1..Len(trace) :
          /\ trace[k].op = "yield_call" =>
                IF trace[k].i = 1
                THEN k > 1 /\ trace[k - 1].op = "add_batch"
                ELSE /\ k > 2
                     /\ trace[k - 1] = [trace[k - 1] EXCEPT !.op = "add_result", !.i = trace[k].i - 1]
                     /\ trace[k - 2].op = "yield_result" /\ trace[k - 2].i = trace[k].i - 1
          /\ trace[k].op = "dispatch" =>
                k > 1 /\ trace[k - 1].op = "yield_call" /\ trace[k - 1].i = trace[k].i
          /\ trace[k].op = "yield_result" =>
                k > 1 /\ trace[k - 1].op = "dispatch" /\ trace[k - 1].i = trace[k].i
          /\ trace[k].op \in {"call_returns", "call_raises"} =>
                /\ k > 1
                /\ \/ trace[k - 1].op = "add_user"
                   \/ trace[k - 1].op = "add_result" /\ trace[k - 1].i = BatchLenAt(k)
    /\ pc = "y_call" =>
          /\ idx \in 1..Len(batch)
          /\ events[Len(events)].type = "tool_call"
          /\ events[Len(events)].tool_id = batch[idx].id
          /\ events[Len(events)].tool_name = batch[idx].name
          /\ trace[Len(trace)] = Did("yield_call", idx, <<>>)
    /\ pc = "y_result" =>
          /\ idx \in 1..Len(batch)
          /\ events[Len(events)].type = "tool_result"
          /\ events[Len(events)].tool_id = batch[idx].id
          /\ events[Len(events)].tool_name = batch[idx].name
          /\ trace[Len(trace)] = Did("yield_result", idx, <<>>)
          /\ events[Len(events)].content = Str(trace[Len(trace) - 1].text)
          /\ result = trace[Len(trace) - 1].text

\* the result of the third request of a batch, an argument error, is announced
\* after the results of the first two
C3_Witness ==
    /\ pc = "y_result"
    /\ idx = 3
    /\ Len(events) = 6
    /\ Contains(events[6].content.text, "Invalid arguments provided")
    /\ Contains(events[2].content.text, "Security")
    /\ Contains(events[4].content.text, "not found")

\* the place of the last message of the transcript that holds the batch, 0 if none
BatchPlace ==
    LET ps == { p \in 1..Len(memory.messages) : memory.messages[p].tool_calls = batch }
    IN  IF ps = {} THEN 0 ELSE CHOOSE p \in ps : \A p2 \in ps : p2 <= p

\* the text dispatch returned for request i of the batch being processed
DispatchText(i) ==
    LET ks == { k \in 1..Len(trace) : trace[k].op = "dispatch" /\ trace[k].i = i }
    IN  trace[CHOOSE k \in ks : \A k2 \in ks : k2 <= k].text

\* C4 as stated: when the orchestrator is back at the inference call after a
\* batch (whose message is still in the transcript), the transcript ends with
\* the batch message followed by one ToolResult message per request, in
\* request order, each with the id of its request and the text dispatch
\* returned.
C4_BatchThenResultsInOrder ==
    (/\ pc = "await"
     /\ batch # <<>>
     /\ trace[Len(trace)].op = "add_result"
     /\ BatchPlace > 0)
    => /\ Len(memory.messages) = BatchPlace + Len(batch)
       /\ \A i \in 1..Len(batch) :
             LET m == memory.messages[BatchPlace + i] IN
             /\ m.role = "tool"
             /\ m.has_id
             /\ m.tool_call_id = batch[i].id
             /\ m.content = Str(DispatchText(i))

\* C5 as stated: a run that has ended without an answer event ended with an
\* error event after an inference call failed on every attempt.
C5_OnlyInferenceFailureEndsRun ==
    (RunEnded /\ ~(Len(events) >= 1 /\ events[Len(events)].type = "answer"))
    => /\ AllAttemptsFailed
       /\ Len(events) >= 1
       /\ events[Len(events)].type = "error"

\* C26: the loop tests no turn count: after the last result of a batch the
\* next inference call is made whatever the number of rounds so far, and
\* every response with tool calls opens a round.  A run stops only at an
\* inference call: with the answer event when an attempt returned a response
\* without tool calls, or with the error event when all attempts failed.
C26_RunEndsOnlyOnAnswerOrExhaustion ==
    [][/\ (pc' # pc /\ pc' \in {"y_answer", "y_error", "crashed"}) =>
             /\ pc = "await"
             /\ \/ /\ pc' = "y_answer"
                   /\ attempts'[Len(attempts')].op = "returns"
                   /\ trace'[Len(trace')].op = "yield_answer"
                \/ /\ pc' = "y_error"
                   /\ AllAttemptsFailed'
                   /\ trace'[Len(trace')].op = "yield_error"
       /\ (pc = "y_result" /\ idx = Len(batch) /\ ResumeAfterToolResult) =>
             /\ pc' = "await"
             /\ attempts' = <<>>
       /\ (pc = "await" /\ pc' \in {"y_call", "crashed"}) => rounds' = rounds + 1]_vars

\* the failures among the first k entries of attempts
FailsUpTo(k) == Cardinality({ j \in 1..k : attempts[j].op = "fails" })

RunAppends == SelectSeq(trace, LAMBDA e : e.op \in {"add_batch", "add_result"})

\* the transcript holds more than the System message and the appends of the
\* current run: clear_memory was not called during the run
KeptDuringRun(msgs) == Len(msgs) >= Len(RunAppends) + 2

\* the transcript ends with the User message of the current run followed by
\* one message for every append of the run: a batch message for add_batch,
\* a tool message with the text of the result for add_result
EndsWithRunMessages(msgs) ==
    LET n == Len(RunAppends)
        u == Len(msgs) - n
    IN  /\ u >= 2
        /\ msgs[u].role = "user"
        /\ \A k \in 1..n :
              IF RunAppends[k].op = "add_batch"
              THEN msgs[u + k].role = "assistant" /\ Len(msgs[u + k].tool_calls) = RunAppends[k].i
              ELSE msgs[u + k].role = "tool" /\ msgs[u + k].content = Str(RunAppends[k].text)

\* C30: an attempt that fails leaves the transcript as it is, the last one
\* included: with the error event the transcript still ends with the User
\* message of the run and the batch and result messages of its rounds
\* (unless the caller cleared the memory during the run); ending the run changes nothing, and the next chat call appends its User
\* message to that transcript.
C30_FailureRollsNothingBack ==
    [][/\ (pc = "await" /\ pc' \in {"await", "y_error"}) =>
             /\ memory' = memory
             /\ pc' = "y_error" =>
                   (KeptDuringRun(memory'.messages) =>
                       EndsWithRunMessages(memory'.messages))
       /\ (pc = "y_error" /\ pc' = "done") => memory' = memory
       /\ (Chat /\ Len(events) >= 1 /\ events[Len(events)].type = "error") =>
             /\ SubSeq(memory'.messages, 1, Len(memory.messages)) = memory.messages
             /\ Len(memory'.messages) = Len(memory.messages) + 1
             /\ memory'.messages[Len(memory'.messages)].role = "user"
             /\ pc' = "await"]_vars

\* a run has ended in the error event after one whole tool round: the
\* transcript holds the User message, the batch message and its results
C30_Witness ==
    /\ pc = "y_error"
    /\ AllAttemptsFailed
    /\ Len(RunAppends) >= 2
    /\ EndsWithRunMessages(memory.messages)
    /\ memory.messages[Len(memory.messages)].role = "tool"

\* the first batch message after place b of the transcript, or the place
\* after its end
NextBatchAfter(msgs, b) ==
    IF \E n \in (b + 1)..Len(msgs) : msgs[n].tool_calls # <<>>
    THEN CHOOSE n \in (b + 1)..Len(msgs) :
            /\ msgs[n].tool_calls # <<>>
            /\ \A o \in (b + 1)..(n - 1) : msgs[o].tool_calls = <<>>
    ELSE Len(msgs) + 1

\* the tool messages with the id between place b and the next batch message
ResultsFor(msgs, b, id) ==
    { k \in (b + 1)..(NextBatchAfter(msgs, b) - 1) :
        msgs[k].role = "tool" /\ msgs[k].has_id /\ msgs[k].tool_call_id = id }

\* C28: while an inference call is under way, every request of every batch
\* message of the transcript has exactly one tool message with its id after
\* the batch message.
C28_EveryRequestHasOneResult ==
    pc = "await" =>
        \A b \in 1..Len(memory.messages) :
            \A r \in 1..Len(memory.messages[b].tool_calls) :
                Cardinality(ResultsFor(memory.messages, b,
                                       memory.messages[b].tool_calls[r].id)) = 1

\* C14: clear_memory leaves the transcript as the System message alone,
\* whatever the transcript was; a second clear changes nothing, and the
\* snapshot of the cleared transcript is the System message alone.
C14_ResetRestoresSystemOnly ==
    [][ClearMemory =>
          /\ memory'.messages = <<memory.system_prompt>>
          /\ memory'.system_prompt = memory.system_prompt
          /\ clear(memory') = memory'
          /\ get_messages(memory') = <<memory.system_prompt>>]_vars

\* clear_memory was called in the middle of a batch: the run has yielded a
\* tool_result event and the transcript holds the System message only
C14_Witness ==
    /\ pc = "y_result"
    /\ Len(events) >= 2
    /\ memory.messages = <<memory.system_prompt>>

\* json.loads cannot parse the payload p
Unparseable(p) == p.form \in {"malformed", "notstr"}

\* C20: a run never stops through an exception of the argument parsing, and
\* a request whose payload cannot be parsed is announced with empty
\* arguments, dispatched with them, and the text of the dispatch is
\* announced as its result.
C20_UnparseablePayloadGivesEmptyArgs ==
    /\ pc # "crashed"
    /\ (pc = "y_call" /\ Unparseable(batch[idx].arguments)) =>
          events[Len(events)] = ToolCallEvent(batch[idx], EmptyArgs)
    /\ (pc = "y_result" /\ Unparseable(batch[idx].arguments)) =>
          /\ events[Len(events)] = ToolResultEvent(batch[idx], result)
          /\ trace[Len(trace) - 1] = Did("dispatch", idx, result)
          /\ \E d \in {disk} : result = execute_tool_call(d, batch[idx].name, EmptyArgs).text

\* the log entry of the yield at which the generator stands
YieldOp(p) ==
    CASE p = "y_call"   -> "yield_call"
      [] p = "y_result" -> "yield_result"
      [] p = "y_answer" -> "yield_answer"
      [] OTHER          -> "yield_error"

\* C21: a suspended run has done nothing after the yield of its last event;
\* while it is not resumed (it stays at its yield or is dropped), and after
\* the caller has dropped it, nothing is dispatched, no inference call is made, and the transcript changes only
\* through a clear_memory or a new chat call of the caller.
C21_SuspensionIsAbandonmentPoint ==
    [][/\ pc' \in Suspended => trace'[Len(trace')].op = YieldOp(pc')
       /\ (pc \in Suspended /\ pc' \in {pc, "abandoned"}) =>
             /\ trace' = trace /\ disk' = disk /\ attempts' = attempts
             /\ events' = events /\ retries' = retries
             /\ ~ClearMemory => memory' = memory
       /\ (pc = "abandoned" /\ ~Chat) =>
             /\ trace' = trace /\ disk' = disk /\ attempts' = attempts
             /\ events' = events /\ retries' = retries
             /\ ~ClearMemory => memory' = memory]_vars

\* the run was dropped at the tool_call event of a write_file request: the
\* file was not written and no result is in the transcript
C21_Witness ==
    /\ pc = "abandoned"
    /\ idx = 1
    /\ Len(batch) = 2
    /\ batch[1].name = "write_file"
    /\ trace[Len(trace)].op = "yield_call"
    /\ disk = Disk0
    /\ memory.messages[Len(memory.messages)].tool_calls = batch

\* C22: the step in which an inference call returns a response without tool
\* calls appends one assistant message with the answer text to the
\* transcript and then yields one answer event with the same text; after
\* the answer event the run makes no inference call; the step that starts a
\* chat run appends one user message before the first inference call.
C22_AnswerAppendedThenAnnounced ==
    [][/\ (pc = "await" /\ pc' = "y_answer") =>
             /\ events' = Append(events, events'[Len(events')])
             /\ events'[Len(events')].type = "answer"
             /\ memory'.messages =
                   Append(memory.messages,
                          Message("assistant", events'[Len(events')].content))
             /\ SubSeq(trace', Len(trace') - 2, Len(trace')) =
                   <<Did("call_returns", 0, <<>>),
                     Did("add_answer", 0, PyStr(events'[Len(events')].content)),
                     Did("yield_answer", 0, PyStr(events'[Len(events')].content))>>
       /\ pc = "y_answer" => pc' \in {"y_answer", "done", "abandoned"}
       /\ Chat =>
             /\ Len(memory'.messages) = Len(memory.messages) + 1
             /\ memory'.messages[Len(memory'.messages)].role = "user"
             /\ trace' = <<Did("add_user", 0, <<>>)>>
             /\ pc' = "await"
       /\ (~Chat /\ Len(memory'.messages) > Len(memory.messages)) =>
             memory'.messages[Len(memory'.messages)].role # "user"]_vars

====
